---- MODULE Spec2Model ----
(***************************************************************************)
(* Verification model of the transport-framing and JSON-repair layer of    *)
(* claude-code-review-mcp: the JSON sanitizer (utils/json-safe), the       *)
(* stdout / JSON interceptions (utils stdio patches, server/index.ts), the *)
(* TCP proxy's framer (mcp-proxy), the transport lifecycle and the         *)
(* outgoing send path (utils/transport-helpers, server/index.ts).          *)
(*                                                                         *)
(* Text is a sequence of one-character strings.  Regular expressions are   *)
(* sequences of quantified character classes matched greedily with         *)
(* backtracking, as the JavaScript engine matches them.                    *)
(***************************************************************************)
EXTENDS Integers, Sequences, FiniteSets, TLC

(***************************************************************************)
(* Characters                                                              *)
(***************************************************************************)
DQ == "\""
SQ == "'"
NL == "\n"
SP == " "
LB == "["
RB == "]"
LC == "{"
RC == "}"
COMMA == ","
COLON == ":"

\* \s, restricted to the white space the model's texts can hold
WS == {SP, NL, "\t", "\r"}
\* line terminators: the characters "." does not match
LineTerm == {NL, "\r"}
Digits == {"0", "1", "2", "3", "4", "5", "6", "7", "8", "9"}
Lower == {"a", "b", "c", "d", "e", "f", "g", "h", "i", "j", "k", "l", "m",
          "n", "o", "p", "q", "r", "s", "t", "u", "v", "w", "x", "y", "z"}
Upper == {"A", "B", "C", "D", "E", "F", "G", "H", "I", "J", "K", "L", "M",
          "N", "O", "P", "Q", "R", "S", "T", "U", "V", "W", "X", "Y", "Z"}
IdentStart == Lower \cup Upper \cup {"_"}
IdentChar == IdentStart \cup Digits

(***************************************************************************)
(* A regular expression engine for the shapes the source uses: a sequence  *)
(* of items, each a character class with a greedy quantifier {min,max}     *)
(* (max = -1: unbounded), optionally anchored at the start of the text.    *)
(***************************************************************************)
One(S) == [set |-> S, neg |-> FALSE, min |-> 1, max |-> 1]
NotOne(S) == [set |-> S, neg |-> TRUE, min |-> 1, max |-> 1]
Star(S) == [set |-> S, neg |-> FALSE, min |-> 0, max |-> -1]
Plus(S) == [set |-> S, neg |-> FALSE, min |-> 1, max |-> -1]
NotPlus(S) == [set |-> S, neg |-> TRUE, min |-> 1, max |-> -1]
NotStar(S) == [set |-> S, neg |-> TRUE, min |-> 0, max |-> -1]
Rep(S, neg, lo, hi) == [set |-> S, neg |-> neg, min |-> lo, max |-> hi]

RegExp(items) == [items |-> items, anchored |-> FALSE]
Anchored(items) == [items |-> items, anchored |-> TRUE]

InClass(c, it) == IF it.neg THEN c \notin it.set ELSE c \in it.set

RECURSIVE RunLen(_, _, _, _)
\* how many characters from pos on are in the item's class, up to its max
RunLen(s, pos, it, n) ==
    IF pos + n > Len(s) THEN n
    ELSE IF it.max >= 0 /\ n >= it.max THEN n
    ELSE IF InClass(s[pos + n], it) THEN RunLen(s, pos, it, n + 1)
    ELSE n

NoMatch == [ok |-> FALSE, ends |-> <<>>]

RECURSIVE MatchItems(_, _, _, _)
RECURSIVE TryCount(_, _, _, _, _)
\* items k.. matched at pos: the position after each item, greedy first
MatchItems(items, k, s, pos) ==
    IF k > Len(items) THEN [ok |-> TRUE, ends |-> <<>>]
    ELSE TryCount(items, k, s, pos, RunLen(s, pos, items[k], 0))

TryCount(items, k, s, pos, n) ==
    IF n < items[k].min THEN NoMatch
    ELSE LET r == MatchItems(items, k + 1, s, pos + n)
         IN  IF r.ok THEN [ok |-> TRUE, ends |-> <<pos + n>> \o r.ends]
             ELSE TryCount(items, k, s, pos, n - 1)

NotFound == [found |-> FALSE, start |-> 0, ends |-> <<>>]

RECURSIVE FindMatch(_, _, _)
\* the leftmost match starting at or after from
FindMatch(re, s, from) ==
    IF from > Len(s) + 1 THEN NotFound
    ELSE LET m == MatchItems(re.items, 1, s, from)
         IN  IF m.ok THEN [found |-> TRUE, start |-> from, ends |-> m.ends]
             ELSE IF re.anchored THEN NotFound
             ELSE FindMatch(re, s, from + 1)

\* RegExp.prototype.test
Test(re, s) == FindMatch(re, s, 1).found

\* position after the whole match
MatchEnd(m) == IF m.ends = <<>> THEN m.start ELSE m.ends[Len(m.ends)]

\* the text items a..b of the match span
Group(s, m, a, b) ==
    LET first == IF a = 1 THEN m.start ELSE m.ends[a - 1]
    IN  SubSeq(s, first, m.ends[b] - 1)

\* a replacement template: literal pieces and group references
L(text) == [lit |-> text, from |-> 0, to |-> 0]
G(a, b) == [lit |-> <<>>, from |-> a, to |-> b]

RECURSIVE Expand(_, _, _, _)
Expand(tmpl, k, s, m) ==
    IF k > Len(tmpl) THEN <<>>
    ELSE (IF tmpl[k].from = 0 THEN tmpl[k].lit
          ELSE Group(s, m, tmpl[k].from, tmpl[k].to))
         \o Expand(tmpl, k + 1, s, m)

RECURSIVE ReplaceFrom(_, _, _, _)
ReplaceFrom(re, tmpl, s, from) ==
    IF from > Len(s) THEN <<>>
    ELSE LET m == FindMatch(re, s, from)
         IN  IF ~m.found THEN SubSeq(s, from, Len(s))
             ELSE IF MatchEnd(m) = m.start
                  THEN SubSeq(s, from, m.start - 1) \o Expand(tmpl, 1, s, m)
                       \o (IF m.start <= Len(s) THEN <<s[m.start]>> ELSE <<>>)
                       \o ReplaceFrom(re, tmpl, s, m.start + 1)
             ELSE SubSeq(s, from, m.start - 1) \o Expand(tmpl, 1, s, m)
                  \o ReplaceFrom(re, tmpl, s, MatchEnd(m))

\* String.prototype.replace with a /g expression
ReplaceAll(re, tmpl, s) == ReplaceFrom(re, tmpl, s, 1)

\* String.prototype.replace with an expression without /g
ReplaceFirst(re, tmpl, s) ==
    LET m == FindMatch(re, s, 1)
    IN  IF ~m.found THEN s
        ELSE SubSeq(s, 1, m.start - 1) \o Expand(tmpl, 1, s, m)
             \o SubSeq(s, MatchEnd(m), Len(s))

RECURSIVE Literal(_)
\* the items matching a text literally
Literal(text) ==
    IF text = <<>> THEN <<>> ELSE <<One({Head(text)})>> \o Literal(Tail(text))

\* String.prototype.includes
Includes(s, text) == Test(RegExp(Literal(text)), s)

\* String.prototype.charAt with a 0-based index ("" past the end)
CharAt(s, i) == IF i + 1 <= Len(s) THEN s[i + 1] ELSE ""

\* String.prototype.slice(a, b) and slice(a) with 0-based non-negative indices
Slice(s, a, b) == SubSeq(s, a + 1, IF b < Len(s) THEN b ELSE Len(s))
SliceFrom(s, a) == SubSeq(s, a + 1, Len(s))

RECURSIVE TrimStart(_)
TrimStart(s) == IF s /= <<>> /\ Head(s) \in WS THEN TrimStart(Tail(s)) ELSE s

\* chunk.trim().startsWith(c)
TrimStartsWith(s, c) == LET t == TrimStart(s) IN t /= <<>> /\ Head(t) = c

(***************************************************************************)
(* The standard JSON parser (the runtime's JSON.parse), as a recogniser    *)
(* that reports where and how it fails.  The messages are those of the     *)
(* Node 20 runtime the package builds against: a failure names its         *)
(* position except "Unexpected end of JSON input" and "Unexpected token".  *)
(***************************************************************************)
ParseOk(next) == [ok |-> TRUE, next |-> next, kind |-> "", pos |-> 0]
\* pos is the 0-based offset the message names
ParseFail(kind, pos) == [ok |-> FALSE, next |-> 0, kind |-> kind, pos |-> pos]

JsonWS == {SP, NL, "\t", "\r"}
ControlChars == {NL, "\t", "\r"}
HexChars == Digits \cup {"a", "b", "c", "d", "e", "f", "A", "B", "C", "D", "E", "F"}
EscapeChars == {DQ, "\\", "/", "b", "f", "n", "r", "t"}

RECURSIVE SkipWS(_, _)
SkipWS(s, i) == IF i <= Len(s) /\ s[i] \in JsonWS THEN SkipWS(s, i + 1) ELSE i

\* the first quote, backslash or control character of s from position i0 on,
\* or the position after the end of s: the plain characters of a string are
\* passed over
FirstStop(s, i0) ==
    LET stops == {j \in i0..Len(s) : s[j] \in {DQ, "\\"} \cup ControlChars}
    IN  IF stops = {} THEN Len(s) + 1
        ELSE CHOOSE j \in stops : \A k \in stops : j <= k

RECURSIVE ScanString(_, _)
\* the string from the stop at position i on
ScanStop(s, i) ==
    IF i > Len(s) THEN ParseFail("unterminated_string", Len(s))
    ELSE IF s[i] = DQ THEN ParseOk(i + 1)
    ELSE IF s[i] \in ControlChars THEN ParseFail("bad_control_character", i - 1)
    ELSE IF i + 1 > Len(s) THEN ParseFail("unterminated_string", Len(s))
    ELSE IF s[i + 1] \in EscapeChars THEN ScanString(s, i + 2)
    ELSE IF s[i + 1] = "u"
         THEN IF i + 5 <= Len(s) /\ \A k \in 2..5 : s[i + k] \in HexChars
              THEN ScanString(s, i + 6)
              ELSE ParseFail("bad_unicode_escape", i + 1)
    ELSE ParseFail("bad_escaped_character", i)

\* i0 is the position after the opening quote, or inside the string
ScanString(s, i0) == ScanStop(s, FirstStop(s, i0))

RECURSIVE SkipDigits(_, _)
SkipDigits(s, i) == IF i <= Len(s) /\ s[i] \in Digits THEN SkipDigits(s, i + 1) ELSE i

\* s[i] is "-" or a digit
ScanNumber(s, i) ==
    LET a == IF s[i] = "-" THEN i + 1 ELSE i
    IN  IF a > Len(s) \/ s[a] \notin Digits
        THEN ParseFail("no_number_after_minus", a - 1)
        ELSE LET b == IF s[a] = "0" THEN a + 1 ELSE SkipDigits(s, a)
                 c == IF b <= Len(s) /\ s[b] = "." THEN SkipDigits(s, b + 1) ELSE b
                 hasExp == c <= Len(s) /\ s[c] \in {"e", "E"}
                 d == IF hasExp /\ c + 1 <= Len(s) /\ s[c + 1] \in {"+", "-"}
                      THEN c + 2 ELSE c + 1
                 e == IF hasExp THEN SkipDigits(s, d) ELSE c
             IN  IF b <= Len(s) /\ s[b] = "." /\ c = b + 1
                 THEN ParseFail("unterminated_fractional_number", b)
                 ELSE IF hasExp /\ e = d
                 THEN ParseFail("exponent_part_missing_number", d - 1)
                 ELSE ParseOk(e)

\* s[i] starts one of the literals true, false, null
ScanLiteral(s, i, word) ==
    IF i + Len(word) - 1 <= Len(s) /\ SubSeq(s, i, i + Len(word) - 1) = word
    THEN ParseOk(i + Len(word))
    ELSE IF \A k \in i..Len(s) : k - i + 1 <= Len(word) /\ s[k] = word[k - i + 1]
    THEN ParseFail("eos", Len(s))
    ELSE ParseFail("unexpected_token", i - 1)

RECURSIVE ParseValue(_, _)
RECURSIVE ParseElements(_, _)
RECURSIVE ParseMembers(_, _, _)

ParseValue(s, i0) ==
    LET i == SkipWS(s, i0)
    IN  IF i > Len(s) THEN ParseFail("eos", Len(s))
        ELSE IF s[i] = DQ THEN ScanString(s, i + 1)
        ELSE IF s[i] \in Digits \cup {"-"} THEN ScanNumber(s, i)
        ELSE IF s[i] = "t" THEN ScanLiteral(s, i, <<"t", "r", "u", "e">>)
        ELSE IF s[i] = "f" THEN ScanLiteral(s, i, <<"f", "a", "l", "s", "e">>)
        ELSE IF s[i] = "n" THEN ScanLiteral(s, i, <<"n", "u", "l", "l">>)
        ELSE IF s[i] = LB
             THEN LET j == SkipWS(s, i + 1)
                  IN  IF j <= Len(s) /\ s[j] = RB THEN ParseOk(j + 1)
                      ELSE ParseElements(s, j)
        ELSE IF s[i] = LC
             THEN LET j == SkipWS(s, i + 1)
                  IN  IF j <= Len(s) /\ s[j] = RC THEN ParseOk(j + 1)
                      ELSE ParseMembers(s, j, TRUE)
        ELSE ParseFail("unexpected_token", i - 1)

\* the elements of an array from position i to its closing bracket
ParseElements(s, i) ==
    LET v == ParseValue(s, i)
    IN  IF ~v.ok THEN v
        ELSE LET j == SkipWS(s, v.next)
             IN  IF j <= Len(s) /\ s[j] = COMMA THEN ParseElements(s, j + 1)
                 ELSE IF j <= Len(s) /\ s[j] = RB THEN ParseOk(j + 1)
                 ELSE ParseFail("expected_comma_or_rbrack", j - 1)

\* the members of an object from position i to its closing brace
ParseMembers(s, i, first) ==
    LET k == SkipWS(s, i)
    IN  IF k > Len(s) \/ s[k] /= DQ
        THEN ParseFail(IF first THEN "expected_property_name_or_rbrace"
                       ELSE "expected_double_quoted_property_name", k - 1)
        ELSE LET key == ScanString(s, k + 1)
             IN  IF ~key.ok THEN key
                 ELSE LET c == SkipWS(s, key.next)
                      IN  IF c > Len(s) \/ s[c] /= COLON
                          THEN ParseFail("expected_colon_after_property_name", c - 1)
                          ELSE LET v == ParseValue(s, c + 1)
                               IN  IF ~v.ok THEN v
                                   ELSE LET j == SkipWS(s, v.next)
                                        IN  IF j <= Len(s) /\ s[j] = COMMA
                                            THEN ParseMembers(s, j + 1, FALSE)
                                            ELSE IF j <= Len(s) /\ s[j] = RC
                                            THEN ParseOk(j + 1)
                                            ELSE ParseFail("expected_comma_or_rbrace", j - 1)

\* JSON.parse(text): ok, or the failure (a SyntaxError)
JSONParse(s) ==
    LET v == ParseValue(s, 1)
    IN  IF ~v.ok THEN v
        ELSE LET j == SkipWS(s, v.next)
             IN  IF j > Len(s) THEN ParseOk(j)
                 ELSE ParseFail("unexpected_non_whitespace_after_json", j - 1)

IsValidJson(s) == JSONParse(s).ok

\* error.message.includes('position 5')
MentionsPosition5(r) ==
    /\ ~r.ok
    /\ r.kind \notin {"eos", "unexpected_token"}
    /\ (r.pos = 5 \/ r.pos \div 10 = 5 \/ r.pos \div 100 = 5)

(***************************************************************************)
(* utils/json-safe: the repairs of sanitizeJson, in source order.  Each is *)
(* applied when its trigger pattern matches the text as modified so far.   *)
(***************************************************************************)
Quotes == {DQ, SQ}
AnyChar == Rep({}, TRUE, 1, 1)

\* an outcome of a call: a returned text, an exception raised to the caller,
\* or a call that never returns
Return(v) == [kind |-> "return", value |-> v]
Throw == [kind |-> "throw", value |-> <<>>]
Diverge == [kind |-> "diverge", value |-> <<>>]

\* /\[\s*"[^"]+"\s+"[^"]+"/ with quote character q
MissingCommaRe(q) ==
    RegExp(<<One({LB}), Star(WS), One({q}), NotPlus({q}), One({q}), Plus(WS),
             One({q}), NotPlus({q}), One({q})>>)
\* '["$1","$2"'
MissingCommaTmpl == <<L(<<LB, DQ>>), G(4, 4), L(<<DQ, COMMA, DQ>>), G(8, 8), L(<<DQ>>)>>

\* Fix 1: array with values missing commas, double then single quotes
Fix1(m) ==
    LET a == IF Test(MissingCommaRe(DQ), m)
             THEN ReplaceAll(MissingCommaRe(DQ), MissingCommaTmpl, m) ELSE m
    IN  IF Test(MissingCommaRe(SQ), a)
        THEN ReplaceAll(MissingCommaRe(SQ), MissingCommaTmpl, a) ELSE a

\* Fix 2: extra whitespace in arrays
Fix2(m) ==
    IF Test(RegExp(<<One({LB}), Plus(WS), One(Quotes)>>), m)
    THEN ReplaceAll(RegExp(<<One({LB}), Plus(WS), One({SQ})>>), <<L(<<LB, DQ>>)>>,
           ReplaceAll(RegExp(<<One({LB}), Plus(WS), One({DQ})>>), <<L(<<LB, DQ>>)>>, m))
    ELSE m

\* /q1\s+q2/g -> '","'
BetweenQuotes(q1, q2, m) ==
    ReplaceAll(RegExp(<<One({q1}), Plus(WS), One({q2})>>), <<L(<<DQ, COMMA, DQ>>)>>, m)

\* Fix 3: missing commas between array elements
Fix3(m) ==
    IF Test(RegExp(<<One(Quotes), Plus(WS), One(Quotes)>>), m)
    THEN BetweenQuotes(SQ, DQ, BetweenQuotes(DQ, SQ,
           BetweenQuotes(SQ, SQ, BetweenQuotes(DQ, DQ, m))))
    ELSE m

\* the text with its objects left as they follow each other
Unseparated(m) == m

BackToBackRe == RegExp(<<One({RC}), Star(WS), One({LC})>>)

\* Fix 4: back-to-back JSON objects
Fix4(m) ==
    IF Test(BackToBackRe, m) THEN ReplaceAll(BackToBackRe, <<L(<<RC, NL, LC>>)>>, m)
    ELSE m

EmptyArrayRe == RegExp(<<One({LB}), Plus(WS), One({RB})>>)

\* Fix 5: empty array with extra spaces
Fix5(m) ==
    IF Test(EmptyArrayRe, m) THEN ReplaceAll(EmptyArrayRe, <<L(<<LB, RB>>)>>, m)
    ELSE m

\* /^([\s\S]{0,10}\[)(\s*)(.)/
earlyArrayRegex ==
    Anchored(<<Rep({}, TRUE, 0, 10), One({LB}), Star(WS), NotOne(LineTerm)>>)

\* Fix 6: the first array near the start of the document: prefix + nextChar
Fix6(m) ==
    IF Test(earlyArrayRegex, m)
    THEN ReplaceFirst(earlyArrayRegex, <<G(1, 2), G(4, 4)>>, m)
    ELSE m

\* Fix 7: arrays with mixed quotes and missing commas
Fix7(m) ==
    IF Test(RegExp(<<One({LB}), Rep({COMMA, RB}, TRUE, 10, -1)>>), m)
    THEN ReplaceAll(
           RegExp(<<One({LB}), Star(WS), One(Quotes), NotPlus(Quotes), One(Quotes),
                    Plus(WS), One(Quotes), NotPlus(Quotes), One(Quotes)>>),
           <<L(<<LB>>), G(3, 5), L(<<COMMA>>), G(7, 9)>>, m)
    ELSE m

TrailingCommaRe == RegExp(<<One({COMMA}), Star(WS), One({RB})>>)

\* Fix 8: trailing commas in arrays
Fix8(m) ==
    IF Test(TrailingCommaRe, m) THEN ReplaceAll(TrailingCommaRe, <<G(2, 2), L(<<RB>>)>>, m)
    ELSE m

\* Fix 9: duplicate commas
Fix9(m) ==
    IF Test(RegExp(<<One({COMMA}), One({COMMA})>>), m)
    THEN ReplaceAll(RegExp(<<One({COMMA}), Star(WS), One({COMMA})>>), <<L(<<COMMA>>)>>, m)
    ELSE m

\* /(\{|,)\s*([a-zA-Z_][a-zA-Z0-9_]*)\s*:/g
propertyRegex ==
    RegExp(<<One({LC, COMMA}), Star(WS), One(IdentStart), Star(IdentChar), Star(WS),
             One({COLON})>>)

\* Fix 10: unquoted property names
Fix10(m) ==
    IF Test(propertyRegex, m)
    THEN ReplaceAll(propertyRegex, <<G(1, 1), L(<<DQ>>), G(3, 4), L(<<DQ, COLON>>)>>, m)
    ELSE m

SingleQuotedRe == RegExp(<<One({SQ}), NotStar({SQ}), One({SQ})>>)

\* Fix 11: single quoted strings
Fix11(m) ==
    IF Test(SingleQuotedRe, m)
    THEN ReplaceAll(SingleQuotedRe, <<L(<<DQ>>), G(2, 2), L(<<DQ>>)>>, m)
    ELSE m

\* the text as it was handed in
Unrepaired(json) == json

\* the nine repairs of the first variant of sanitizeJson
ApplyRepairs9(json) == Fix9(Fix8(Fix7(Fix6(Fix5(Fix4(Fix3(Fix2(Fix1(json)))))))))

\* the eleven repairs of the variant with the position-5 path
ApplyRepairs(json) == Fix11(Fix10(ApplyRepairs9(json)))

\* a final validation without its try/catch: the parse failure escapes
FinalValidationUnguarded(modifiedJson) ==
    IF IsValidJson(modifiedJson) THEN Return(modifiedJson) ELSE Throw

\* the final validation: the modified text is returned whether it parses or not
FinalValidation(modifiedJson) ==
    IF IsValidJson(modifiedJson) THEN Return(modifiedJson) ELSE Return(modifiedJson)

RECURSIVE SkipSpaces(_, _)
\* while (i < json.length && /\s/.test(json.charAt(i))) i++   (i 0-based)
SkipSpaces(s, i) == IF i < Len(s) /\ CharAt(s, i) \in WS THEN SkipSpaces(s, i + 1) ELSE i

\* slice(0, 5) + ',' + slice(5)
InsertCommaAt5(s) == Slice(s, 0, 5) \o <<COMMA>> \o SliceFrom(s, 5)

\* json with the white space from position 5 on removed
RemoveSpacesAt5(json) == Slice(json, 0, 5) \o SliceFrom(json, SkipSpaces(json, 5))

\* fixPosition5Error's body for a text of six characters or more, given the
\* outcome p of parsing it
Position5Fix(json, p) ==
    IF p.ok THEN json
    ELSE IF ~MentionsPosition5(p) THEN json
    ELSE IF CharAt(json, 4) \in Quotes /\ CharAt(json, 5) \in Quotes
            /\ IsValidJson(InsertCommaAt5(json))
         THEN InsertCommaAt5(json)
    ELSE IF CharAt(json, 4) = LB /\ CharAt(json, 5) \in WS
            /\ SkipSpaces(json, 5) < Len(json) /\ IsValidJson(RemoveSpacesAt5(json))
         THEN RemoveSpacesAt5(json)
    ELSE json

\* fixPosition5Error: the targeted fix, kept only when its result parses
fixPosition5Error(json) ==
    IF json = <<>> \/ Len(json) < 6 THEN json ELSE Position5Fix(json, JSONParse(json))

\* sanitizeJson without the leading parse check: every text is repaired
sanitizeJsonAlwaysRepairs(json) == FinalValidation(ApplyRepairs(json))

\* sanitizeJson's body for a non-empty text, given the outcome p of parsing it
\* and the text position5Fixed that fixPosition5Error gives
SanitizeParsed(json, p, position5Fixed) ==
    IF p.ok THEN Return(json)
    ELSE IF MentionsPosition5(p) /\ position5Fixed /= json /\ IsValidJson(position5Fixed)
         THEN Return(position5Fixed)
    ELSE FinalValidation(ApplyRepairs(json))

\* sanitizeJson, the variant with the position-5 path
sanitizeJson(json) ==
    IF json = <<>> THEN Return(json)
    ELSE SanitizeParsed(json, JSONParse(json), fixPosition5Error(json))

\* sanitizeJson, the first variant: nine repairs, no position-5 path
sanitizeJsonBasic(json) ==
    IF json = <<>> THEN Return(json)
    ELSE IF IsValidJson(json) THEN Return(json)
    ELSE FinalValidation(ApplyRepairs9(json))

\* sanitizeJson while the global JSON.parse is the transport's sanitizing
\* replacement: the parse check of a text the original parser rejects re-enters
\* the replacement, which calls sanitizeJson on the same text again, without end
sanitizeJsonPatched(json) ==
    IF json = <<>> THEN Return(json)
    ELSE IF IsValidJson(json) THEN Return(json)
    ELSE Diverge

(***************************************************************************)
(* The outbound interceptions: each maps the text handed to it to the text *)
(* it hands to the original function.                                      *)
(***************************************************************************)
LooksLikeJson(chunk) == TrimStartsWith(chunk, LC) \/ TrimStartsWith(chunk, LB)

\* the chunk patchStdio's write hands on, given the outcome of sanitizeJson
WriteSanitized(chunk, sanitized) ==
    IF sanitized.kind = "return" /\ sanitized.value /= chunk
    THEN Return(sanitized.value)
    ELSE Return(chunk)

\* patchStdio: the replacement of process.stdout.write, for a string chunk
patchedStdoutWrite(chunk) ==
    IF LooksLikeJson(chunk)
    THEN IF Len(chunk) > 5 /\ CharAt(chunk, 5) = DQ /\ CharAt(chunk, 4) = DQ
         THEN Return(InsertCommaAt5(chunk))
         ELSE WriteSanitized(chunk, sanitizeJson(chunk))
    ELSE Return(chunk)

\* createSafeJSON.safeStringify, on the text the original JSON.stringify gives
safeStringify(json) ==
    IF Len(json) > 5 /\ CharAt(json, 5) = DQ /\ CharAt(json, 4) = DQ
    THEN Return(InsertCommaAt5(json))
    ELSE sanitizeJson(json)

\* interceptStdout's three position-5 fixes; a later fix overrides an earlier
\* one, so the conditions are tested from the last fix to the first
AggressivePosition5(chunk) ==
    IF Len(chunk) <= 5 THEN chunk
    ELSE IF CharAt(chunk, 5) \in WS /\ CharAt(chunk, 4) \notin {LB, LC, COLON, COMMA}
         THEN InsertCommaAt5(chunk)
    ELSE IF CharAt(chunk, 4) = LB /\ CharAt(chunk, 5) \in WS
            /\ SkipSpaces(chunk, 5) < Len(chunk)
         THEN RemoveSpacesAt5(chunk)
    ELSE IF CharAt(chunk, 4) \in Quotes /\ CharAt(chunk, 5) \in Quotes
         THEN InsertCommaAt5(chunk)
    ELSE chunk

\* the chunk interceptStdout's write hands on, given the outcome of the
\* sanitizing of the chunk as fixed at position 5
WriteFixed(chunk, fixedChunk) ==
    IF fixedChunk.kind = "diverge" THEN Diverge
    ELSE IF IsValidJson(fixedChunk.value) /\ fixedChunk.value /= chunk
         THEN Return(fixedChunk.value)
    ELSE Return(chunk)

\* SafeStdioServerTransport.interceptStdout: the replacement of
\* process.stdout.write, for a string chunk; JSON.parse is the transport's
\* replacement by then
interceptedStdoutWrite(chunk) ==
    IF LooksLikeJson(chunk)
    THEN WriteFixed(chunk, sanitizeJsonPatched(AggressivePosition5(chunk)))
    ELSE Return(chunk)

\* monkeyPatchGlobalJSON's sanitizingStringify, on the text the original
\* JSON.stringify gives
sanitizingStringify(result) == sanitizeJsonPatched(result)

(***************************************************************************)
(* mcp-proxy: the handler of the data the proxy receives from the server.  *)
(* Two variants of the file exist (part_001 and part_002); they differ in  *)
(* the marker they test for and in the sanitizing applied to the buffer.   *)
(***************************************************************************)
\* part_001: includes('"jsonrpc":') || includes('"content":')
HasMarker1(s) ==
    \/ Includes(s, <<"\"", "j", "s", "o", "n", "r", "p", "c", "\"", ":">>)
    \/ Includes(s, <<"\"", "c", "o", "n", "t", "e", "n", "t", "\"", ":">>)

\* part_002: includes('{') || includes('[')
HasMarker2(s) == Includes(s, <<LC>>) \/ Includes(s, <<LB>>)

\* /\[\s*"([^"]+)"\s*,/g -> '["$1",' with quote character q
ArrayHead(q, s) ==
    ReplaceAll(RegExp(<<One({LB}), Star(WS), One({q}), NotPlus({q}), One({q}),
                        Star(WS), One({COMMA})>>),
               <<L(<<LB, DQ>>), G(4, 4), L(<<DQ, COMMA>>)>>, s)

\* /"(gemini-[0-9.-]+)"/g -> '"gemini_$1"', and the same for gpt; name ends
\* with the hyphen, under with the underscore
RenameModelId(name, under, s) ==
    ReplaceAll(RegExp(<<One({DQ})>> \o Literal(name)
                      \o <<Plus(Digits \cup {".", "-"}), One({DQ})>>),
               <<L(<<DQ>> \o under), G(2, Len(name) + 2), L(<<DQ>>)>>, s)

RenameModelIds(s) ==
    RenameModelId(<<"g", "p", "t", "-">>, <<"g", "p", "t", "_">>,
        RenameModelId(<<"g", "e", "m", "i", "n", "i", "-">>, <<"g", "e", "m", "i", "n", "i", "_">>, s))

\* part_001: the replacements applied to the buffer before it is written
sanitizedResponse1(responseBuffer) ==
    RenameModelIds(ReplaceAll(BackToBackRe, <<L(<<RC, NL, LC>>)>>,
        ArrayHead(SQ, ArrayHead(DQ, responseBuffer))))

RECURSIVE SkipUntil(_, _, _)
\* the first position from i on whose character is in S, or Len(s) + 1
SkipUntil(s, i, S) == IF i <= Len(s) /\ s[i] \notin S THEN SkipUntil(s, i + 1, S) ELSE i

RECURSIVE NestedTail(_, _, _, _)
\* (?:{[^{}]*}[^{}]*)*} matched at position j, which holds a bracket or is
\* past the end: the position after the match, or 0.  The classes exclude
\* both brackets, so no shorter repetition can match where the longest fails.
NestedTail(s, j, open, close) ==
    IF j > Len(s) THEN 0
    ELSE IF s[j] = close THEN j + 1
    ELSE IF SkipUntil(s, j + 1, {open, close}) <= Len(s)
            /\ s[SkipUntil(s, j + 1, {open, close})] = close
         THEN NestedTail(s, SkipUntil(s, SkipUntil(s, j + 1, {open, close}) + 1,
                                      {open, close}), open, close)
    ELSE 0

RECURSIVE Matches(_, _, _, _)
\* text.match(/({[^{}]*(?:{[^{}]*}[^{}]*)*})/g) || [], and the same pattern
\* with square brackets: the matched texts from position i on
Matches(s, i, open, close) ==
    IF i > Len(s) THEN <<>>
    ELSE IF s[i] = open /\ NestedTail(s, SkipUntil(s, i + 1, {open, close}), open, close) > 0
         THEN <<SubSeq(s, i, NestedTail(s, SkipUntil(s, i + 1, {open, close}),
                                        open, close) - 1)>>
              \o Matches(s, NestedTail(s, SkipUntil(s, i + 1, {open, close}),
                                       open, close), open, close)
    ELSE Matches(s, i + 1, open, close)

RECURSIVE Restringify(_, _, _)
\* JSON.stringify(JSON.parse(t)) for a valid text t whose strings hold no
\* escapes, whose numbers are written as JSON.stringify writes them and whose
\* objects repeat no key and have no integer-like key: the white space outside
\* strings goes
Restringify(t, i, inString) ==
    IF i > Len(t) THEN <<>>
    ELSE IF inString THEN <<t[i]>> \o Restringify(t, i + 1, t[i] /= DQ)
    ELSE IF t[i] \in WS THEN Restringify(t, i + 1, FALSE)
    ELSE <<t[i]>> \o Restringify(t, i + 1, t[i] = DQ)

\* result.replace(match, replacement) with a string pattern: the first
\* occurrence; the replacement holds no "$"
ReplaceText(result, match, replacement) ==
    ReplaceFirst(RegExp(Literal(match)), <<L(replacement)>>, result)

\* /a\s+b/g -> 'a,b'
CommaBetween(a, b, s) ==
    ReplaceAll(RegExp(<<One({a}), Plus(WS), One({b})>>), <<L(<<a, COMMA, b>>)>>, s)

\* /\[\s+/g -> '['
ArrayOpen(s) == ReplaceAll(RegExp(<<One({LB}), Plus(WS)>>), <<L(<<LB>>)>>, s)

\* ensureValidJson: the repairs tried on an object that does not parse
ObjectRepairs(match) ==
    RenameModelIds(CommaBetween(RC, LB, CommaBetween(RB, LC, CommaBetween(RC, DQ,
        CommaBetween(DQ, LC, CommaBetween(DQ, DQ, ArrayOpen(match)))))))

\* ensureValidJson: the repairs tried on an array that does not parse
ArrayRepairs(match) ==
    CommaBetween(DQ, LC, CommaBetween(DQ, DQ,
        ReplaceAll(RegExp(<<Plus(WS), One({RB})>>), <<L(<<RB>>)>>, ArrayOpen(match))))

\* one turn of ensureValidJson's loops: match is re-serialized in result when
\* it parses, or when fixedJson, its repaired form, parses
FixMatch(result, match, fixedJson) ==
    IF IsValidJson(match) THEN ReplaceText(result, match, Restringify(match, 1, FALSE))
    ELSE IF IsValidJson(fixedJson)
         THEN ReplaceText(result, match, Restringify(fixedJson, 1, FALSE))
    ELSE result

RECURSIVE FixObjects(_, _)
FixObjects(result, matches) ==
    IF matches = <<>> THEN result
    ELSE FixObjects(FixMatch(result, Head(matches), ObjectRepairs(Head(matches))),
                    Tail(matches))

RECURSIVE FixArrays(_, _)
FixArrays(result, arrayMatches) ==
    IF arrayMatches = <<>> THEN result
    ELSE FixArrays(FixMatch(result, Head(arrayMatches), ArrayRepairs(Head(arrayMatches))),
                   Tail(arrayMatches))

\* ensureValidJson past the objects: the arrays of result, then /}{/g -> '}\n{'
FixArraysAndSeparate(result) ==
    ReplaceAll(RegExp(<<One({RC}), One({LC})>>), <<L(<<RC, NL, LC>>)>>,
               FixArrays(result, Matches(result, 1, LB, RB)))

\* part_002: ensureValidJson
ensureValidJson(text) ==
    IF ~HasMarker2(text) THEN text
    ELSE IF IsValidJson(text) THEN text
    ELSE FixArraysAndSeparate(FixObjects(text, Matches(text, 1, LC, RC)))

\* part_002: the replacements applied to the buffer before it is written
sanitizedResponse2(responseBuffer) ==
    ensureValidJson(ReplaceAll(MissingCommaRe(SQ), MissingCommaTmpl,
        ReplaceAll(MissingCommaRe(DQ), MissingCommaTmpl, responseBuffer)))

\* a mutation: the buffer is left as it is
KeepBuffer(buffered) == buffered

\* responseBuffer = ''
ClearBuffer(buffered) == <<>>

\* a mutation: every text is taken to hold a marker
AnyTextHasMarker(variant, s) == TRUE

\* the marker test of the variant
HasMarker(variant, s) == IF variant = "part_001" THEN HasMarker1(s) ELSE HasMarker2(s)

\* the text the variant writes when it flushes the buffer
sanitizedResponse(variant, responseBuffer) ==
    IF variant = "part_001" THEN sanitizedResponse1(responseBuffer)
    ELSE sanitizedResponse2(responseBuffer)

\* the 'data' handler once responseBuffer += responseText has given buffered:
\* what the buffer becomes, and what is written to the client from where
OnServerData(variant, buffered, responseText) ==
    IF HasMarker(variant, buffered)
    THEN [buffer |-> ClearBuffer(buffered), wrote |-> "buffer",
          payload |-> sanitizedResponse(variant, buffered)]
    ELSE IF ~HasMarker(variant, responseText)
    THEN [buffer |-> ClearBuffer(buffered), wrote |-> "chunk", payload |-> responseText]
    ELSE [buffer |-> buffered, wrote |-> "nothing", payload |-> <<>>]

(***************************************************************************)
(* State                                                                   *)
(***************************************************************************)
VARIABLES
    text,           \* the text handed to the sanitizer or to an interception
    ntok,           \* how many tokens of it have been produced
    call,           \* the last call made on it: operation, argument, outcome
    variant,        \* the proxy file running: "part_001" or "part_002"
    pending,        \* what the server has yet to deliver of its current message
    nArrived,       \* how many chunks of the current message have arrived
    responseBuffer, \* the handler's responseBuffer
    bufferedFrom,   \* the chunks (by number) whose text responseBuffer holds
    clientSocket,   \* the client's socket: open, or the event it has emitted
    received,       \* the chunks the proxy has received from the server
    written,        \* the writes to the client socket: data, and the chunks
                    \* (by number) the data comes from
    stdoutWrite,    \* the function process.stdout.write is
    stderrWrite,    \* the function process.stderr.write is
    jsonParse,      \* the function JSON.parse is
    jsonStringify,  \* the function JSON.stringify is
    installs,       \* per installation: its kind and the functions it saved
    undone,         \* the installations whose close() or restore function has been called
    sendCall,       \* the last send: operation, message, outcome, what it wrote
    channel,        \* what has been handed to the channel, in order
    streamable,     \* the transports registered in transports.streamable
    sse,            \* the transports registered in transports.sse
    nCreated,       \* how many transports the HTTP server has constructed
    closed,         \* the transports of the HTTP server that have closed
    lastRequest,    \* the last HTTP request: what it asked and how it was answered
    serverState,    \* the HTTP server process: running, shutting down, or exited
    apiKeys,        \* the providers whose API key is set in the environment
    debugMode,      \* whether LOG_LEVEL is debug
    toolCall,       \* the last tool call: tool, model asked for, provider calls made, outcome
    executed,       \* the git commands the last tool call executed, in order
    output,         \* the console writes of the last tool call: stream and notice, in order
    connectionAttempts,\* setupTransport: the connection attempts made
    connected,      \* setupTransport: whether an attempt has succeeded
    waited,         \* how many retry delays have elapsed
    process,        \* the code reviewer process: where it is, and its exit code and cause
    formatCall,     \* formatForMcpResponse: the value handed to it, and what it returned
    env,            \* the environment variables that hold the API keys
    keyCall,        \* the last call of getApiKey: provider and value returned
    frames,         \* the call stack of a JSON.parse call: function and text of each frame
    parseCall       \* the JSON.parse call being made: its text and its outcome

sanVars == <<text, ntok, call>>
proxyVars == <<variant, pending, nArrived, responseBuffer, bufferedFrom, clientSocket,
               received, written>>
lifeVars == <<stdoutWrite, stderrWrite, jsonParse, jsonStringify, installs, undone>>
sendVars == <<sendCall, channel>>
httpVars == <<streamable, sse, nCreated, closed, lastRequest, serverState>>
toolVars == <<apiKeys, debugMode, toolCall, executed, output>>
startVars == <<connectionAttempts, connected, waited, process>>
formatVars == <<formatCall>>
envVars == <<env, keyCall>>
parseVars == <<frames, parseCall>>
vars == <<sanVars, proxyVars, lifeVars, sendVars, httpVars, toolVars, startVars, formatVars, envVars, parseVars>>

\* the variables a step of the sanitizer, of the proxy, of an installation and
\* of a send leaves alone
exceptSan == <<proxyVars, lifeVars, sendVars, httpVars, toolVars, startVars, formatVars, envVars, parseVars>>
exceptProxy == <<sanVars, lifeVars, sendVars, httpVars, toolVars, startVars, formatVars, envVars, parseVars>>
exceptLife == <<sanVars, proxyVars, sendVars, httpVars, toolVars, startVars, formatVars, envVars, parseVars>>
exceptSend == <<sanVars, proxyVars, lifeVars, httpVars, toolVars, startVars, formatVars, envVars, parseVars>>
exceptHttp == <<sanVars, proxyVars, lifeVars, sendVars, toolVars, startVars, formatVars, envVars, parseVars>>
exceptTools == <<sanVars, proxyVars, lifeVars, sendVars, httpVars, startVars, formatVars, envVars, parseVars>>
exceptStart == <<sanVars, proxyVars, lifeVars, sendVars, httpVars, toolVars, formatVars, envVars, parseVars>>
exceptFormat == <<sanVars, proxyVars, lifeVars, sendVars, httpVars, toolVars, startVars, envVars, parseVars>>
exceptEnv == <<sanVars, proxyVars, lifeVars, sendVars, httpVars, toolVars, startVars, formatVars, parseVars>>
exceptParse == <<sanVars, proxyVars, lifeVars, sendVars, httpVars, toolVars, startVars, formatVars, envVars>>

(***************************************************************************)
(* Bounds of the texts explored                                            *)
(***************************************************************************)
MaxTokens == 4

\* the pieces texts are built from
Tokens ==
    { <<LB>>, <<RB>>, <<LC>>, <<RC>>, <<COMMA>>, <<COLON>>, <<SP>>,
      <<DQ, "a", DQ>> }

\* whole documents: the defects the repairs are written for, values holding
\* empty strings and numbers, and defects followed by text that a later
\* repair's pattern matches
Documents ==
    { <<LB, DQ, "a", DQ, SP, DQ, "b", DQ, RB>>,
      <<LB, SP, DQ, "a", DQ, COMMA, SP, DQ, "b", DQ, RB>>,
      <<LC, DQ, "a", DQ, COLON, "1", RC, LC, DQ, "b", DQ, COLON, "2", RC>>,
      <<LB, SQ, "a", SQ, SP, SQ, "b", SQ, RB>>,
      <<LC, "a", COLON, SQ, "b", SQ, RC>>,
      <<LB, SP, DQ, "a", DQ, DQ, "b", DQ, RB>>,
      <<LB, DQ, DQ, COMMA, DQ, DQ, RB>>,
      <<LB, "1", "2", COMMA, DQ, DQ, RB>>,
      <<LC, DQ, DQ, COLON, DQ, DQ, RC>>,
      <<LC, DQ, "i", "d", DQ, COLON, "1", COMMA, DQ, "r", DQ, COLON, LB, DQ, "a", DQ, RB, RC>>,
      <<LB, DQ, "a", DQ, SP, DQ, "b", DQ, COMMA, DQ, SP, DQ, RB>>,
      <<LB, LB, DQ, "a", DQ, SP, DQ, "b", DQ, RB, COMMA, LB, SP, DQ, "a", DQ, RB, RB>> }

NoCall == [op |-> "none", arg |-> <<>>, out |-> Return(<<>>)]

\* no text is being sanitized
NoText == text = <<>> /\ ntok = 0 /\ call = NoCall

\* no proxy runs
NoProxy ==
    /\ variant = "none"
    /\ clientSocket = "none"
    /\ pending = <<>> /\ nArrived = 0
    /\ responseBuffer = <<>> /\ bufferedFrom = <<>>
    /\ received = <<>> /\ written = <<>>

\* how many installations (transports constructed, initializeJsonSafety
\* calls) a run makes
MaxInstalls == 3

Installs == 1..MaxInstalls

\* the identity of a function a global slot holds: the runtime's own, or the
\* replacement installation i created
Native == [installedBy |-> 0]
ReplacementOf(i) == [installedBy |-> i]

\* an installation not made yet
NoInstall ==
    [kind |-> "none", savedWrite |-> Native, savedErrWrite |-> Native,
     savedParse |-> Native, savedStringify |-> Native]

\* nothing is installed: every slot holds the runtime's function
NoInstalls ==
    /\ stdoutWrite = Native /\ stderrWrite = Native
    /\ jsonParse = Native /\ jsonStringify = Native
    /\ installs = [i \in Installs |-> NoInstall]
    /\ undone = {}

NoSendCall == [op |-> "none", message |-> <<>>, out |-> Return(<<>>), written |-> <<>>]

\* nothing has been sent
NoSend == sendCall = NoSendCall /\ channel = <<>>


\* a session id: the one a transport generated, none, or some other text
UUID(t) == [name |-> "uuid", n |-> t]
Missing == [name |-> "", n |-> 0]
Named(s) == [name |-> s, n |-> 0]

NoRequest ==
    [path |-> "none", method |-> "none", id |-> Missing, owner |-> 0,
     status |-> "none", handledBy |-> 0]

\* no HTTP server runs
NoHttp ==
    /\ streamable = {} /\ sse = {}
    /\ nCreated = 0
    /\ closed = {}
    /\ lastRequest = NoRequest
    /\ serverState = "none"


\* a string built from a template literal: the template, the model id and the
\* message of the error it quotes; a property an object does not have is
\* "absent", one it has with the value undefined is "undefined"
Message(template, model, detail) ==
    [type |-> "string", template |-> template, model |-> model, detail |-> detail]
NoMessage == [type |-> "absent", template |-> "", model |-> <<>>, detail |-> ""]
ModelMap(entries) == [type |-> "object", entries |-> entries]
NoModelMap == [type |-> "absent", entries |-> <<>>]
ModelId(id) == [type |-> "string", id |-> id]
UndefinedModelId == [type |-> "undefined", id |-> <<>>]
NoModelId == [type |-> "absent", id |-> <<>>]

\* the object a review tool returns (modelUsed "" and isError "absent": the
\* object has no such property)
Answer(modelUsed, error, suggestedModel, availableModels) ==
    [modelUsed |-> modelUsed, error |-> error, suggestedModel |-> suggestedModel,
     availableModels |-> availableModels, review |-> FALSE, serverInfo |-> FALSE,
     isError |-> "absent", content |-> NoMessage]

\* the arguments of a tool call and what its environment does during it: the
\* model asked for and the requests the provider fails; the target, the base,
\* the provider, what git does and what the provider does
NoArgs ==
    [model |-> <<>>, fails |-> 0, target |-> "none",
     baseBranch |-> [type |-> "undefined", text |-> <<>>], provider |-> "none",
     git |-> [repository |-> TRUE, fetch |-> TRUE, diff |-> [ok |-> TRUE, text |-> <<>>]],
     llm |-> "none"]

NoToolCall ==
    [tool |-> "none", args |-> NoArgs, providerCalls |-> 0,
     out |-> Return(Answer("", NoMessage, NoModelId, NoModelMap))]

\* no tool has been called
NoTools ==
    /\ apiKeys = {}
    /\ debugMode = FALSE
    /\ toolCall = NoToolCall
    /\ executed = <<>>
    /\ output = <<>>


\* the process at a place of its run; an exit has a code and a cause
At(state) == [state |-> state, code |-> 0, by |-> "none"]
Exited(code, by) == [state |-> "exited", code |-> code, by |-> by]

\* no code reviewer process runs
NoStart ==
    /\ connectionAttempts = 0
    /\ connected = FALSE
    /\ waited = 0
    /\ process = At("none")


\* a JavaScript value: its type and what a value of that type holds; the
\* items of an array are values, the entries of an object are keys with values
JsValue(type, num, chars, items, entries) ==
    [type |-> type, num |-> num, text |-> chars, items |-> items, entries |-> entries]
JsUndefined == JsValue("undefined", 0, <<>>, <<>>, <<>>)
JsNull == JsValue("null", 0, <<>>, <<>>, <<>>)
JsNumber(n) == JsValue("number", n, <<>>, <<>>, <<>>)
JsBoolean(b) == JsValue("boolean", IF b THEN 1 ELSE 0, <<>>, <<>>, <<>>)
JsString(s) == JsValue("string", 0, s, <<>>, <<>>)
JsArray(items) == JsValue("array", 0, <<>>, items, <<>>)
JsObject(entries) == JsValue("object", 0, <<>>, <<>>, entries)

NoFormatCall == [data |-> JsUndefined, out |-> JsUndefined, done |-> FALSE]

\* formatForMcpResponse has not been called
NoFormat == formatCall = NoFormatCall


\* a value of process.env, and of a function that returns one: a string, or
\* undefined when the variable is not set
EnvString(s) == [type |-> "string", text |-> s]
EnvUndefined == [type |-> "undefined", text |-> <<>>]
EnvNames == {"GOOGLE_API_KEY", "GEMINI_API_KEY", "OPENAI_API_KEY", "ANTHROPIC_API_KEY"}
NoKeyCall == [provider |-> "", out |-> EnvUndefined, done |-> FALSE]
NoEnv ==
    /\ env = [name \in EnvNames |-> EnvUndefined]
    /\ keyCall = NoKeyCall


\* no JSON.parse call is being made
NoParseCall == [text |-> <<>>, out |-> Return(<<>>), done |-> TRUE]
NoParse == frames = <<>> /\ parseCall = NoParseCall

\* the empty text to build on, or a whole document
InitText ==
    /\ NoProxy /\ NoInstalls /\ NoSend /\ NoHttp /\ NoTools /\ NoStart /\ NoFormat /\ NoEnv /\ NoParse
    /\ call = NoCall
    /\ \/ text = <<>> /\ ntok = 0
       \/ text \in Documents /\ ntok = MaxTokens

\* the producer appends one more token
Type(tok) ==
    /\ ntok < MaxTokens
    /\ text' = text \o tok
    /\ ntok' = ntok + 1
    /\ call' = NoCall
    /\ UNCHANGED exceptSan

\* the record of a call made on the current text
CallOf(op, out) == [op |-> op, arg |-> text, out |-> out]

\* sanitizeJson(text), the variant with the position-5 path
CallSanitizeJson ==
    /\ call.op /= "sanitizeJson"
    /\ call' = CallOf("sanitizeJson", sanitizeJson(text))
    /\ UNCHANGED <<text, ntok, exceptSan>>

\* sanitizeJson(text), the first variant
CallSanitizeJsonBasic ==
    /\ call.op /= "sanitizeJsonBasic"
    /\ call' = CallOf("sanitizeJsonBasic", sanitizeJsonBasic(text))
    /\ UNCHANGED <<text, ntok, exceptSan>>

NextSanitize ==
    \/ \E tok \in Tokens : Type(tok)
    \/ CallSanitizeJson
    \/ CallSanitizeJsonBasic

SpecSanitize == InitText /\ [][NextSanitize]_vars

\* the text JSON.stringify gives without indentation holds no white space
\* outside strings; the texts explored hold none inside strings
IsStringifyOutput(s) == IsValidJson(s) /\ \A i \in 1..Len(s) : s[i] \notin WS

\* process.stdout.write(text) with patchStdio installed
WritePatched ==
    /\ IsValidJson(text)
    /\ call.op /= "patchedStdoutWrite"
    /\ call' = CallOf("patchedStdoutWrite", patchedStdoutWrite(text))
    /\ UNCHANGED <<text, ntok, exceptSan>>

\* process.stdout.write(text) with a SafeStdioServerTransport constructed
WriteIntercepted ==
    /\ IsValidJson(text)
    /\ call.op /= "interceptedStdoutWrite"
    /\ call' = CallOf("interceptedStdoutWrite", interceptedStdoutWrite(text))
    /\ UNCHANGED <<text, ntok, exceptSan>>

\* JSON.stringify(value) with createSafeJSON's replacement installed
StringifySafe ==
    /\ IsStringifyOutput(text)
    /\ call.op /= "safeStringify"
    /\ call' = CallOf("safeStringify", safeStringify(text))
    /\ UNCHANGED <<text, ntok, exceptSan>>

\* JSON.stringify(value) with a SafeStdioServerTransport constructed
StringifySanitizing ==
    /\ IsStringifyOutput(text)
    /\ call.op /= "sanitizingStringify"
    /\ call' = CallOf("sanitizingStringify", sanitizingStringify(text))
    /\ UNCHANGED <<text, ntok, exceptSan>>

NextOutbound ==
    \/ \E tok \in Tokens : Type(tok)
    \/ WritePatched
    \/ WriteIntercepted
    \/ StringifySafe
    \/ StringifySanitizing

SpecOutbound == InitText /\ [][NextOutbound]_vars

(***************************************************************************)
(* Claims about the sanitizer and the outbound interceptions               *)
(***************************************************************************)
SanitizeOps == {"sanitizeJson", "sanitizeJsonBasic"}
OutboundOps == {"patchedStdoutWrite", "interceptedStdoutWrite", "safeStringify",
                "sanitizingStringify"}

\* C1: for every text the standard JSON parser accepts, sanitizeJson returns
\* that text unchanged, character for character.
C1_ValidJsonUnchanged ==
    (call.op \in SanitizeOps /\ IsValidJson(call.arg)) => call.out = Return(call.arg)

\* a valid text that the repairs would alter was sanitized and came back as is
C1_Witness ==
    /\ call.op = "sanitizeJson"
    /\ IsValidJson(call.arg)
    /\ ApplyRepairs(call.arg) /= call.arg
    /\ call.out = Return(call.arg)

\* C2: for every text (valid, invalid or empty) sanitizeJson returns a text
\* and never raises, also when the text is still unparseable after the repairs.
C2_NeverThrows ==
    call.op \in SanitizeOps =>
        /\ call.out.kind = "return"
        /\ DOMAIN call.out.value = 1..Len(call.out.value)

\* a text that no repair made parseable was sanitized, and a text was returned
C2_Witness ==
    /\ call.op = "sanitizeJson"
    /\ ~IsValidJson(call.arg)
    /\ call.out.kind = "return"
    /\ call.out.value /= call.arg
    /\ ~IsValidJson(call.out.value)

\* C3: the outbound interception never changes already-valid JSON: the patched
\* process.stdout.write writes a valid chunk unchanged and the patched
\* JSON.stringify returns the text the original JSON.stringify returns.
C3_ValidJsonPassesUnchanged ==
    (call.op \in OutboundOps /\ IsValidJson(call.arg)) => call.out = Return(call.arg)

(***************************************************************************)
(* The proxy on one connection: the server's messages reach the handler in *)
(* chunks, each 'data' event running the handler to its end.               *)
(***************************************************************************)
MaxChunks == 3

\* the messages the server sends: JSON-RPC messages, a line of plain text, two
\* objects in one write, a message cut short, texts the repairs act on
Messages ==
    { <<"{", "\"", "j", "s", "o", "n", "r", "p", "c", "\"", ":", "\"", "2",
        ".", "0", "\"", ",", "\"", "i", "d", "\"", ":", "1", "}">>,
      <<"{", "\"", "c", "o", "n", "t", "e", "n", "t", "\"", ":", "[", " ",
        "\"", "a", "\"", " ", ",", "\"", "b", "\"", "]", "}">>,
      <<"r", "e", "a", "d", "y", "\n">>,
      <<"{", "\"", "i", "d", "\"", ":", "1", "}", "{", "\"", "i", "d", "\"",
        ":", "2", "}">>,
      <<"{", "\"", "c", "o", "n", "t", "e", "n", "t", "\"", ":", "\"", "g",
        "p", "t", "-", "4", "\"", "}">>,
      <<"{", "\"", "j", "s", "o", "n", "r", "p", "c", "\"", ":">>,
      <<"{", "\"", "a", "\"", ":", "\"", "x", "\"", " ", "\"", "y", "\"",
        ":", "1", "}">>,
      <<"[", " ", "1", " ", "]", "[", "2", " ", "]">> }

\* where the stream may cut a message: after that many characters
Cuts == {7, 11}

\* the lengths the next chunk of the text m may have
ChunkLengths(m) == {k \in Cuts : k < Len(m)} \cup {Len(m)}

InitProxy ==
    /\ NoText /\ NoInstalls /\ NoSend /\ NoHttp /\ NoTools /\ NoStart /\ NoFormat /\ NoEnv /\ NoParse
    /\ variant \in {"part_001", "part_002"}
    /\ clientSocket = "open"
    /\ pending = <<>> /\ nArrived = 0
    /\ responseBuffer = <<>> /\ bufferedFrom = <<>>
    /\ received = <<>> /\ written = <<>>

\* a mutation: the write is not made
WriteNothing(socket, data, from) == socket

\* a mutation: the write overtakes the writes made before it
WriteFirst(socket, data, from) == <<[data |-> data, from |-> from]>> \o socket

\* clientSocket.write(data)
Write(socket, data, from) == Append(socket, [data |-> data, from |-> from])

\* the handler's effect, r being what OnServerData gives for the chunk data
Handled(data, r) ==
    /\ received' = Append(received, data)
    /\ responseBuffer' = r.buffer
    /\ bufferedFrom' = IF r.buffer = <<>> THEN <<>>
                       ELSE Append(bufferedFrom, Len(received) + 1)
    /\ written' = IF r.wrote = "buffer"
                  THEN Write(written, r.payload, Append(bufferedFrom, Len(received) + 1))
                  ELSE IF r.wrote = "chunk"
                  THEN Write(written, r.payload, <<Len(received) + 1>>)
                  ELSE written

\* serverSocket.on('data'): the next chunk of the message being delivered, or
\* the first chunk of a new message, arrives and the handler runs
ServerData ==
    /\ Len(received) < MaxChunks
    /\ \E m \in (IF pending = <<>> THEN Messages ELSE {pending}) :
         \E k \in ChunkLengths(m) :
            /\ pending' = SubSeq(m, k + 1, Len(m))
            /\ nArrived' = IF pending = <<>> THEN 1 ELSE nArrived + 1
            /\ Handled(SubSeq(m, 1, k),
                       OnServerData(variant, responseBuffer \o SubSeq(m, 1, k),
                                    SubSeq(m, 1, k)))
    /\ UNCHANGED <<variant, clientSocket, exceptProxy>>

NextProxy == ServerData

SpecProxy == InitProxy /\ [][NextProxy]_vars

(***************************************************************************)
(* Claims about the proxy                                                  *)
(***************************************************************************)
\* the numbers of the chunks of the message now being delivered
CurrentChunks == (Len(received) - nArrived + 1)..Len(received)

\* the numbers of the chunks a write's data comes from
ChunksOf(w) == {w.from[i] : i \in DOMAIN w.from}

RECURSIVE Joined(_, _, _)
\* the chunks numbered a..b, joined
Joined(chunks, a, b) == IF a > b THEN <<>> ELSE chunks[a] \o Joined(chunks, a + 1, b)

\* the message now being delivered: what has arrived of it and what has not
CurrentMessage == Joined(received, Len(received) - nArrived + 1, Len(received)) \o pending

\* C4: while a JSON-RPC message split across chunks is incomplete, its prefix
\* is held in the buffer and nothing of it is written to the client; when its
\* last chunk has arrived, the whole message is written as one unit.
C4_SplitMessageHeldUntilComplete ==
    (IsValidJson(CurrentMessage) /\ Includes(CurrentMessage, <<"\"", "j", "s", "o", "n", "r", "p", "c", "\"", ":">>)) =>
        /\ pending /= <<>> =>
              /\ responseBuffer \o pending = CurrentMessage
              /\ \A k \in DOMAIN written : ChunksOf(written[k]) \cap CurrentChunks = {}
        /\ (pending = <<>> /\ nArrived > 1) =>
              ChunksOf(written[Len(written)]) = CurrentChunks

\* C5: once the handler has run on a chunk the buffer is empty, whether or not
\* what was flushed parses; so the buffer never holds more than the chunk
\* being handled.
C5_BufferEmptyAfterEachChunk == responseBuffer = <<>> /\ bufferedFrom = <<>>

\* two chunks with a marker have been handled, the flushed text of neither
\* parses, and the buffer is empty
C5_Witness ==
    /\ Len(received) >= 2
    /\ \A i \in DOMAIN received :
          HasMarker(variant, received[i]) /\ ~IsValidJson(written[i].data)
    /\ responseBuffer = <<>>

\* the text holds none of the markers the running variant tests for
NoMarker(s) == IF variant = "part_001" THEN ~HasMarker1(s) ELSE ~HasMarker2(s)

C7_EveryChunkWritten ==
    [][Len(received') = Len(received) + 1
       => \E k \in (Len(written) + 1)..Len(written') :
             /\ Len(received') \in ChunksOf(written'[k])
             /\ written'[k].data \in
                   { received'[Len(received')],
                     sanitizedResponse(variant, received'[Len(received')]) }]_vars

\* a chunk with a marker whose text no repair makes parse has been written
C7_Witness ==
    /\ received /= <<>>
    /\ HasMarker(variant, received[Len(received)])
    /\ ~IsValidJson(sanitizedResponse(variant, received[Len(received)]))
    /\ Len(received) \in ChunksOf(written[Len(written)])
    /\ written[Len(written)].data = sanitizedResponse(variant, received[Len(received)])

\* C8: the writes to the client carry the chunks in the order of receipt: a
\* later write holds only chunks received after those of every earlier write.
C8_WritesInReceiptOrder ==
    \A i, j \in DOMAIN written :
        i < j => \A a \in ChunksOf(written[i]), b \in ChunksOf(written[j]) : a < b

\* three different chunks have been received and written, one write each
C8_Witness ==
    /\ Len(received) = 3 /\ Len(written) = 3
    /\ Cardinality({received[i] : i \in DOMAIN received}) = 3
    /\ \A i \in DOMAIN written : written[i].from = <<i>>


(***************************************************************************)
(* Installing and restoring the process-wide interceptions                 *)
(***************************************************************************)
\* installations are made one after another
NextInstall(i) ==
    /\ installs[i].kind = "none"
    /\ \A j \in Installs : j < i => installs[j].kind /= "none"

\* new SafeStdioServerTransport(): monkeyPatchGlobalJSON keeps JSON.parse and
\* JSON.stringify in local constants and replaces both, interceptStdout keeps
\* process.stdout.write in this.originalWrite and replaces it
Construct(i) ==
    /\ NextInstall(i)
    /\ installs' = [installs EXCEPT ![i] =
                      [kind |-> "transport", savedWrite |-> stdoutWrite,
                       savedErrWrite |-> stderrWrite, savedParse |-> jsonParse,
                       savedStringify |-> jsonStringify]]
    /\ jsonParse' = ReplacementOf(i)
    /\ jsonStringify' = ReplacementOf(i)
    /\ stdoutWrite' = ReplacementOf(i)
    /\ UNCHANGED <<stderrWrite, undone, exceptLife>>

\* transport.close(): process.stdout.write becomes this.originalWrite again
Close(i) ==
    /\ installs[i].kind = "transport"
    /\ stdoutWrite' = installs[i].savedWrite
    /\ undone' = undone \cup {i}
    /\ UNCHANGED <<stderrWrite, jsonParse, jsonStringify, installs, exceptLife>>

\* initializeJsonSafety(): patchStdio keeps and replaces both stream writes,
\* createSafeJSON keeps JSON.parse and JSON.stringify, and both are replaced
InitializeJsonSafety(i) ==
    /\ NextInstall(i)
    /\ installs' = [installs EXCEPT ![i] =
                      [kind |-> "safety", savedWrite |-> stdoutWrite,
                       savedErrWrite |-> stderrWrite, savedParse |-> jsonParse,
                       savedStringify |-> jsonStringify]]
    /\ stdoutWrite' = ReplacementOf(i)
    /\ stderrWrite' = ReplacementOf(i)
    /\ jsonParse' = ReplacementOf(i)
    /\ jsonStringify' = ReplacementOf(i)
    /\ UNCHANGED <<undone, exceptLife>>

\* the function initializeJsonSafety returned: restoreStdio(), then
\* safeJSON.restore()
RestoreJsonSafety(i) ==
    /\ installs[i].kind = "safety"
    /\ stdoutWrite' = installs[i].savedWrite
    /\ stderrWrite' = installs[i].savedErrWrite
    /\ jsonParse' = installs[i].savedParse
    /\ jsonStringify' = installs[i].savedStringify
    /\ undone' = undone \cup {i}
    /\ UNCHANGED <<installs, exceptLife>>

InitLifecycle == NoText /\ NoProxy /\ NoInstalls /\ NoSend /\ NoHttp /\ NoTools /\ NoStart /\ NoFormat /\ NoEnv /\ NoParse

NextLifecycle ==
    \/ \E i \in Installs : Construct(i)
    \/ \E i \in Installs : Close(i)
    \/ \E i \in Installs : InitializeJsonSafety(i)
    \/ \E i \in Installs : RestoreJsonSafety(i)

SpecLifecycle == InitLifecycle /\ [][NextLifecycle]_vars

(***************************************************************************)
(* Claims about the lifecycle of the interceptions                         *)
(***************************************************************************)
\* C9: after close() on a SafeStdioServerTransport, process.stdout.write,
\* JSON.parse and JSON.stringify are each again the function that was in
\* place before the transport was constructed.
C9_CloseRestoresEveryInterception ==
    [][\A i \in Installs :
         Close(i) => /\ stdoutWrite' = installs[i].savedWrite
                     /\ jsonParse' = installs[i].savedParse
                     /\ jsonStringify' = installs[i].savedStringify]_vars


(***************************************************************************)
(* Sending: the values handed to a send, their encoding, and the two send  *)
(* paths, createStreamResponse(...).write and the transport's sendMessage  *)
(***************************************************************************)
\* a JavaScript value: a string, undefined, null, or an object whose
\* properties are, in order, availableModels (a map from the model ids
\* models to "x") when hasModels, and one property per member
Value(type, s, members, hasModels, models) ==
    [type |-> type, text |-> s, members |-> members, hasModels |-> hasModels,
     models |-> models]
Str(s) == Value("string", s, <<>>, FALSE, <<>>)
Undefined == Value("undefined", <<>>, <<>>, FALSE, <<>>)
Null == Value("null", <<>>, <<>>, FALSE, <<>>)
Obj(members) == Value("object", <<>>, members, FALSE, <<>>)
ObjWithModels(models, members) == Value("object", <<>>, members, TRUE, models)

\* the keys of the members, by position; a member is "number" (1), "string"
\* ("x"), "undefined", "bigint" (1n) or "circular" (the object itself)
MemberKeys == <<<<"a">>, <<"b">>>>

RECURSIVE Quote(_)
\* QuoteJSONString: the characters of s with quotes and backslashes escaped
Quote(s) ==
    IF s = <<>> THEN <<>>
    ELSE (IF Head(s) \in {DQ, "\\"} THEN <<"\\", Head(s)>> ELSE <<Head(s)>>)
         \o Quote(Tail(s))

Quoted(s) == <<DQ>> \o Quote(s) \o <<DQ>>

RECURSIVE SerializeModels(_, _)
\* the properties of the model map from the i-th on, each after a comma
SerializeModels(models, i) ==
    IF i > Len(models) THEN <<>>
    ELSE <<COMMA>> \o Quoted(models[i]) \o <<COLON>> \o Quoted(<<"x">>)
         \o SerializeModels(models, i + 1)

RECURSIVE SerializeMembers(_, _)
\* the properties of the members from the i-th on, each after a comma; a
\* property holding undefined is left out
SerializeMembers(members, i) ==
    IF i > Len(members) THEN <<>>
    ELSE IF members[i] = "undefined" THEN SerializeMembers(members, i + 1)
    ELSE <<COMMA>> \o Quoted(MemberKeys[i]) \o <<COLON>>
         \o (IF members[i] = "number" THEN <<"1">> ELSE Quoted(<<"x">>))
         \o SerializeMembers(members, i + 1)

\* the properties between braces, the comma before the first one dropped
Braced(properties) ==
    <<LC>> \o (IF properties = <<>> THEN <<>> ELSE Tail(properties)) \o <<RC>>

SerializeJSONObject(value) ==
    Braced((IF value.hasModels
            THEN <<COMMA>> \o Quoted(<<"a", "v", "a", "i", "l", "a", "b", "l", "e", "M", "o", "d", "e", "l", "s">>) \o <<COLON>>
                 \o Braced(SerializeModels(value.models, 1))
            ELSE <<>>)
           \o SerializeMembers(value.members, 1))

\* the runtime's JSON.stringify(value): a BigInt and a cycle raise TypeError,
\* undefined gives undefined
JSONStringify(value) ==
    IF value.type = "undefined" THEN Return(Undefined)
    ELSE IF value.type = "null" THEN Return(Str(<<"n", "u", "l", "l">>))
    ELSE IF value.type = "string" THEN Return(Str(Quoted(value.text)))
    ELSE IF \E i \in DOMAIN value.members : value.members[i] \in {"bigint", "circular"}
    THEN Throw
    ELSE Return(Str(SerializeJSONObject(value)))

\* the key as it is
SameKey(key) == key

\* key.replace(/[.-]/g, '_')
SafeKey(key) == ReplaceAll(RegExp(<<One({".", "-"})>>), <<L(<<"_">>)>>, key)

\* { ...obj, availableModels: cleanModels }
CleanObj(obj) ==
    [obj EXCEPT !.models = [i \in DOMAIN obj.models |-> SafeKey(obj.models[i])]]

\* JSON.stringify of the fallback envelope
ErrorEnvelope ==
    <<"{", "\"", "j", "s", "o", "n", "r", "p", "c", "\"", ":", "\"", "2",
      ".", "0", "\"", ",", "\"", "e", "r", "r", "o", "r", "\"", ":", "{",
      "\"", "c", "o", "d", "e", "\"", ":", "-", "3", "2", "6", "0", "3", ",",
      "\"", "m", "e", "s", "s", "a", "g", "e", "\"", ":", "\"", "I", "n",
      "t", "e", "r", "n", "a", "l", " ", "J", "S", "O", "N", "-", "R", "P",
      "C", " ", "e", "r", "r", "o", "r", ":", " ", "C", "o", "u", "l", "d",
      " ", "n", "o", "t", " ", "s", "e", "r", "i", "a", "l", "i", "z", "e",
      " ", "r", "e", "s", "p", "o", "n", "s", "e", "\"", "}", ",", "\"", "i",
      "d", "\"", ":", "n", "u", "l", "l", "}">>

\* safeJsonStringify's try/catch around the encoding: the envelope when the
\* encoding threw
EnvelopeOnFailure(encoded) ==
    IF encoded.kind = "throw" THEN Return(Str(ErrorEnvelope)) ELSE encoded

safeJsonStringify(obj) ==
    IF obj.type = "string" THEN Return(obj)
    ELSE EnvelopeOnFailure(
            JSONStringify(IF obj.type = "object" /\ obj.hasModels
                          THEN CleanObj(obj) ELSE obj))

\* new TextEncoder().encode(data): the text of a string, nothing for undefined
Encode(data) == Str(data.text)

\* what a send gives: its outcome and what it handed to the channel
Sending(out, items) == [out |-> out, written |-> items]

\* write's body once the writer is held, data being the outcome of the encoding
WriteData(data) ==
    IF data.kind = "return" THEN Sending(Return(TRUE), <<Encode(data.value)>>)
    ELSE Sending(Return(FALSE), <<>>)

\* createStreamResponse(writeStream).write(chunk); getWriter() throws when
\* the stream is locked, and the catch returns false
streamWrite(chunk, locked) ==
    IF locked THEN Sending(Return(FALSE), <<>>)
    ELSE WriteData(IF chunk.type = "string" THEN Return(chunk)
                   ELSE safeJsonStringify(chunk))

\* what a call of originalSendMessage, the method of the SDK's transport that
\* setupJsonSafety wraps, may do: hand its argument to the channel and return,
\* throw, or return a promise that rejects
SendOutcomes == {"sent", "throws", "rejects"}

originalSendMessage(arg, outcome) ==
    IF outcome = "sent" THEN Sending(Return(TRUE), <<arg>>)
    ELSE IF outcome = "throws" THEN Sending(Throw, <<>>)
    ELSE Sending([kind |-> "reject", value |-> <<>>], <<>>)

\* a text outcome as a value outcome
SanitizedText(r) == IF r.kind = "return" THEN Return(Str(r.value)) ELSE r

\* the global JSON.stringify once a SafeStdioServerTransport is constructed:
\* the original's text goes through sanitizeJson; when the original throws,
\* the catch calls it again and the TypeError leaves the replacement
PatchedStringify(encoded) ==
    IF encoded.kind /= "return" \/ encoded.value.type /= "string" THEN encoded
    ELSE SanitizedText(sanitizingStringify(encoded.value.text))

\* sanitizeJson(encoded) in sendMessage, the global JSON.parse being the
\* transport's replacement
SanitizeEncoded(encoded) ==
    IF encoded.kind /= "return" \/ encoded.value.type /= "string" THEN encoded
    ELSE SanitizedText(sanitizeJsonPatched(encoded.value.text))

\* sendMessage for a string, sanitized being what sanitizeJson gave for it
SendSanitized(sanitized, first) ==
    IF sanitized.kind = "return" THEN originalSendMessage(sanitized.value, first)
    ELSE Sending(sanitized, <<>>)

\* sendMessage for an object, sanitized being what
\* sanitizeJson(JSON.stringify(message)) gave: when that threw, and when the
\* first originalSendMessage threw inside the inner try, the message itself is
\* handed to originalSendMessage
SendObject(message, sanitized, first, second) ==
    IF sanitized.kind = "throw" THEN originalSendMessage(message, first)
    ELSE IF sanitized.kind /= "return" THEN Sending(sanitized, <<>>)
    ELSE IF first = "throws" THEN originalSendMessage(message, second)
    ELSE originalSendMessage(sanitized.value, first)

\* the sendMessage that setupJsonSafety puts on the transport; first and
\* second are what the calls of originalSendMessage do
sendMessage(message, first, second) ==
    IF message.type = "string"
    THEN SendSanitized(SanitizeEncoded(Return(message)), first)
    ELSE IF message.type = "object"
    THEN SendObject(message,
                    SanitizeEncoded(PatchedStringify(JSONStringify(message))),
                    first, second)
    ELSE originalSendMessage(message, first)

\* how many items a run hands to the channel
MaxSends == 2

\* the values sent
SendMessages ==
    { Str(<<"{", "\"", "i", "d", "\"", ":", "1", "}">>),
      Str(<<"{", "\"", "i", "d", "\"", " ", "1", "}">>),
      Undefined, Null,
      Obj(<<>>), Obj(<<"number">>), Obj(<<"string", "number">>),
      Obj(<<"undefined", "string">>), Obj(<<"bigint">>),
      Obj(<<"number", "circular">>),
      ObjWithModels(<<<<"g", "p", "t", "-", "4">>>>, <<"number">>),
      ObjWithModels(<<<<"g", "p", "t", "-", "4">>>>, <<"circular">>) }

InitSend == NoText /\ NoProxy /\ NoInstalls /\ NoSend /\ NoHttp /\ NoTools /\ NoStart /\ NoFormat /\ NoEnv /\ NoParse

\* the record of the send and the channel after it
Sent(op, message, r) ==
    /\ sendCall' = [op |-> op, message |-> message, out |-> r.out,
                    written |-> r.written]
    /\ channel' = channel \o r.written

\* createStreamResponse(writable).write(chunk)
StreamWrite(chunk, locked) ==
    /\ Len(channel) < MaxSends
    /\ Sent("write", chunk, streamWrite(chunk, locked))
    /\ UNCHANGED exceptSend

\* transport.sendMessage(message) on a SafeStdioServerTransport whose base
\* class has a sendMessage
SendMessage(message, first, second) ==
    /\ Len(channel) < MaxSends
    /\ Sent("sendMessage", message, sendMessage(message, first, second))
    /\ UNCHANGED exceptSend

NextSend ==
    \/ \E chunk \in SendMessages, locked \in BOOLEAN : StreamWrite(chunk, locked)
    \/ \E message \in SendMessages, first, second \in SendOutcomes :
          SendMessage(message, first, second)

SpecSend == InitSend /\ [][NextSend]_vars

(***************************************************************************)
(* Claims about sending                                                    *)
(***************************************************************************)
\* the value cannot be encoded: JSON.stringify throws on it
EncodeFails(value) == value.type /= "string" /\ JSONStringify(value).kind = "throw"

\* the text s holds the text t
Holds(s, t) == \E i \in 1..(Len(s) - Len(t) + 1) : SubSeq(s, i, i + Len(t) - 1) = t

\* a JSON-RPC error envelope: valid JSON text with jsonrpc "2.0", error code
\* -32603 and id null
IsErrorEnvelope(item) ==
    /\ item.type = "string"
    /\ IsValidJson(item.text)
    /\ Holds(item.text, <<"\"", "j", "s", "o", "n", "r", "p", "c", "\"", ":", "\"", "2", ".", "0", "\"">>)
    /\ Holds(item.text, <<"\"", "c", "o", "d", "e", "\"", ":", "-", "3", "2", "6", "0", "3">>)
    /\ Holds(item.text, <<"\"", "i", "d", "\"", ":", "n", "u", "l", "l">>)

\* C10: send never throws: every send returns to its caller, and a send of a
\* value that cannot be encoded hands the channel a JSON-RPC error envelope
\* (jsonrpc "2.0", code -32603, id null) in place of the value.
C10_SendNeverThrows ==
    sendCall.op /= "none" =>
        /\ sendCall.out.kind = "return"
        /\ EncodeFails(sendCall.message) =>
              /\ Len(sendCall.written) = 1
              /\ IsErrorEnvelope(sendCall.written[1])

(***************************************************************************)
(* The HTTP server: the /mcp, /sse and /messages routes and the registries *)
(* of transports by session id                                             *)
(***************************************************************************)
\* how many transports a run constructs
MaxTransports == 3

Transports == 1..MaxTransports

\* the session ids requests carry
RequestIds ==
    {Missing, Named("constructor"), Named("unknown")} \cup {UUID(t) : t \in Transports}

\* the properties every object literal inherits from Object.prototype
ObjectPrototypeKeys ==
    {"constructor", "__proto__", "toString", "toLocaleString", "valueOf",
     "hasOwnProperty", "isPrototypeOf", "propertyIsEnumerable"}

\* transports.streamable[sessionId], transports.sse[sessionId]: registry is an
\* object literal keyed by the session ids of the transports in it
Lookup(registry, id) ==
    IF id.name = "uuid" /\ id.n \in registry THEN [found |-> "transport", t |-> id.n]
    ELSE IF id.name \in ObjectPrototypeKeys THEN [found |-> "inherited", t |-> 0]
    ELSE [found |-> "undefined", t |-> 0]

\* what a route handler did: the status answered ("transport" when the
\* transport answered, "fault" when an exception left the handler), the
\* transport the request was handed to, whether a transport was constructed
\* and whether it was registered
Handling(status, handledBy, creates, registers) ==
    [status |-> status, handledBy |-> handledBy, creates |-> creates,
     registers |-> registers]

\* the try/catch around handleRequest: a value that is no transport has no
\* handleRequest, and the TypeError is answered like a throw of the SDK
TryHandleRequest(found, sdk) ==
    IF found.found = "transport" /\ sdk /= "throws"
    THEN Handling("transport", found.t, FALSE, FALSE)
    ELSE Handling("500", found.t, FALSE, FALSE)

\* app.all('/mcp'): found is transports.streamable[sessionId], fresh the
\* transport a POST without session constructs, sdk what the SDK does with the
\* request: initialize a session, answer, or throw
mcpRoute(method, id, found, fresh, sdk) ==
    IF method = "POST"
    THEN IF id /= Missing /\ found.found /= "undefined"
         THEN TryHandleRequest(found, sdk)
         ELSE Handling(IF sdk = "throws" THEN "500" ELSE "transport", fresh,
                       TRUE, sdk = "initialized")
    ELSE IF method \in {"GET", "DELETE"}
    THEN IF id = Missing \/ found.found = "undefined"
         THEN Handling("400", 0, FALSE, FALSE)
         ELSE TryHandleRequest(found, sdk)
    ELSE Handling("405", 0, FALSE, FALSE)

\* app.post('/messages'): found is transports.sse[sessionId]
messagesRoute(found, sdk) ==
    IF found.found = "undefined" THEN Handling("400", 0, FALSE, FALSE)
    ELSE IF found.found = "transport" /\ sdk /= "throws"
    THEN Handling("transport", found.t, FALSE, FALSE)
    ELSE Handling("fault", found.t, FALSE, FALSE)

RequestOf(path, method, id, found, r) ==
    [path |-> path, method |-> method, id |-> id, owner |-> found.t,
     status |-> r.status, handledBy |-> r.handledBy]

InitHttp ==
    /\ NoText /\ NoProxy /\ NoInstalls /\ NoSend /\ NoTools /\ NoStart /\ NoFormat /\ NoEnv /\ NoParse
    /\ streamable = {} /\ sse = {}
    /\ nCreated = 0
    /\ closed = {}
    /\ lastRequest = NoRequest
    /\ serverState = "running"

\* the effect of a request on /mcp, r being what the route did
McpHandled(method, id, found, r) ==
    /\ r.creates => nCreated < MaxTransports
    /\ nCreated' = IF r.creates THEN nCreated + 1 ELSE nCreated
    /\ streamable' = IF r.registers THEN streamable \cup {nCreated + 1} ELSE streamable
    /\ lastRequest' = RequestOf("/mcp", method, id, found, r)

\* a request arrives on /mcp
McpRequest(method, id, sdk) ==
    /\ serverState = "running"
    /\ McpHandled(method, id, Lookup(streamable, id),
                  mcpRoute(method, id, Lookup(streamable, id), nCreated + 1, sdk))
    /\ UNCHANGED <<sse, closed, serverState, exceptHttp>>

\* GET /sse: a transport is constructed and registered under its session id
SseRequest ==
    /\ serverState = "running"
    /\ nCreated < MaxTransports
    /\ nCreated' = nCreated + 1
    /\ sse' = sse \cup {nCreated + 1}
    /\ lastRequest' = [path |-> "/sse", method |-> "GET", id |-> Missing,
                       owner |-> 0, status |-> "transport",
                       handledBy |-> nCreated + 1]
    /\ UNCHANGED <<streamable, closed, serverState, exceptHttp>>

\* POST /messages?sessionId=id
MessagesRequest(id, sdk) ==
    /\ serverState = "running"
    /\ lastRequest' = RequestOf("/messages", "POST", id, Lookup(sse, id),
                                messagesRoute(Lookup(sse, id), sdk))
    /\ UNCHANGED <<streamable, sse, nCreated, closed, serverState, exceptHttp>>

\* an onclose handler that leaves the registry as it is
StaysRegistered(t) ==
    /\ t \in streamable
    /\ closed' = closed \cup {t}
    /\ UNCHANGED <<streamable, sse, nCreated, lastRequest, serverState, exceptHttp>>

\* transport.onclose of a streamable transport
StreamableClosed(t) ==
    /\ t \in streamable
    /\ streamable' = streamable \ {t}
    /\ closed' = closed \cup {t}
    /\ UNCHANGED <<sse, nCreated, lastRequest, serverState, exceptHttp>>

\* res.on("close") of an SSE response: the client went away
SseClosed(t) ==
    /\ t \in sse
    /\ sse' = sse \ {t}
    /\ closed' = closed \cup {t}
    /\ UNCHANGED <<streamable, nCreated, lastRequest, serverState, exceptHttp>>

\* shutdownHandler, on SIGTERM or SIGINT: every streamable transport is
\* closed (its onclose takes it out of the registry), expressServer.close is
\* called and the 10 s timer is started
Shutdown(signal) ==
    /\ serverState = "running"
    /\ streamable' = {}
    /\ closed' = closed \cup streamable
    /\ serverState' = "shutting down"
    /\ UNCHANGED <<sse, nCreated, lastRequest, exceptHttp>>

\* the callback of expressServer.close: it runs once no connection is open,
\* and the SSE responses are the connections nothing closes
ServerClosed ==
    /\ serverState = "shutting down"
    /\ sse = {}
    /\ serverState' = "exited 0"
    /\ UNCHANGED <<streamable, sse, nCreated, closed, lastRequest, exceptHttp>>

\* the timer of shutdownHandler fires while a connection is still open
ForcedShutdown ==
    /\ serverState = "shutting down"
    /\ sse /= {}
    /\ serverState' = "exited 1"
    /\ UNCHANGED <<streamable, sse, nCreated, closed, lastRequest, exceptHttp>>

NextHttp ==
    \/ \E method \in {"POST", "GET", "DELETE", "PUT"}, id \in RequestIds,
          sdk \in {"initialized", "answered", "throws"} : McpRequest(method, id, sdk)
    \/ SseRequest
    \/ \E id \in RequestIds, sdk \in {"answered", "throws"} : MessagesRequest(id, sdk)
    \/ \E t \in Transports : StreamableClosed(t)
    \/ \E t \in Transports : SseClosed(t)
    \/ \E signal \in {"SIGTERM", "SIGINT"} : Shutdown(signal)
    \/ ServerClosed
    \/ ForcedShutdown

SpecHttp == InitHttp /\ [][NextHttp]_vars

(***************************************************************************)
(* Claims about the HTTP sessions                                          *)
(***************************************************************************)
\* C11: a request (POST, GET or DELETE on /mcp, POST on /messages) carrying a
\* registered session id is handled by exactly the transport registered under
\* that id, and a GET or DELETE on /mcp or a POST on /messages whose id is
\* missing or not registered is answered with status 400 without reaching
\* any transport.
C11_SessionServedByOwnTransport ==
    /\ (lastRequest.owner /= 0 /\ lastRequest.method \in {"POST", "GET", "DELETE"})
       => lastRequest.handledBy = lastRequest.owner
    /\ ( /\ lastRequest.owner = 0
         /\ \/ lastRequest.path = "/mcp" /\ lastRequest.method \in {"GET", "DELETE"}
            \/ lastRequest.path = "/messages" )
       => lastRequest.status = "400" /\ lastRequest.handledBy = 0

\* C17: once a SIGINT or SIGTERM has been received by the running server the
\* process exits with code 0, whatever streamable HTTP or SSE sessions are
\* open when the signal arrives: a process that has exited after the signal
\* has exited with code 0.
C17_SignalExitsWithCodeZero ==
    serverState \in {"exited 0", "exited 1"} => serverState = "exited 0"

\* ---------------------------------------------------------------------------
\* The review tools of the server (src/src/tools/index.ts) over the
\* configuration of src/src/config/index.ts and the provider calls of
\* src/src/utils/ai-providers.ts. A model id is the sequence of its characters.

\* how many attempts in a row a provider may fail in the model
MaxFailures == 5

MAX_RETRIES == 3

Providers == {"openai", "google", "anthropic"}

modelMapping ==
    <<
       [id |-> <<"g", "p", "t", "-", "4", ".", "1">>,
        name |-> "OpenAI GPT-4.1"],
       [id |-> <<"o", "4", "-", "m", "i", "n", "i">>,
        name |-> "OpenAI O4 Mini"],
       [id |-> <<"o", "3", "-", "m", "i", "n", "i">>,
        name |-> "OpenAI O3 Mini"],
       [id |-> <<"g", "e", "m", "i", "n", "i", "-", "2", ".", "5", "-", "p",
                 "r", "o", "-", "p", "r", "e", "v", "i", "e", "w", "-", "0",
                 "5", "-", "0", "6">>,
        name |-> "Google Gemini 2.5 Pro"],
       [id |-> <<"g", "e", "m", "i", "n", "i", "-", "2", ".", "5", "-", "f",
                 "l", "a", "s", "h", "-", "p", "r", "e", "v", "i", "e", "w",
                 "-", "0", "4", "-", "1", "7">>,
        name |-> "Google Gemini 2.5 Flash"],
       [id |-> <<"c", "l", "a", "u", "d", "e", "-", "3", "-", "o", "p", "u",
                 "s", "-", "2", "0", "2", "4", "0", "2", "2", "9">>,
        name |-> "Anthropic Claude 3 Opus"],
       [id |-> <<"c", "l", "a", "u", "d", "e", "-", "3", "-", "s", "o", "n",
                 "n", "e", "t", "-", "2", "0", "2", "4", "0", "2", "2", "9">>,
        name |-> "Anthropic Claude 3 Sonnet"],
       [id |-> <<"c", "l", "a", "u", "d", "e", "-", "3", "-", "h", "a", "i",
                 "k", "u", "-", "2", "0", "2", "4", "0", "3", "0", "7">>,
        name |-> "Anthropic Claude 3 Haiku"]
    >>

modelCategories ==
    [openai |-> <<<<"g", "p", "t", "-", "4", ".", "1">>,
                 <<"o", "4", "-", "m", "i", "n", "i">>,
                 <<"o", "3", "-", "m", "i", "n", "i">>>>,
     google |-> <<<<"g", "e", "m", "i", "n", "i", "-", "2", ".", "5", "-", "p",
                   "r", "o", "-", "p", "r", "e", "v", "i", "e", "w", "-", "0",
                   "5", "-", "0", "6">>,
                 <<"g", "e", "m", "i", "n", "i", "-", "2", ".", "5", "-", "f",
                   "l", "a", "s", "h", "-", "p", "r", "e", "v", "i", "e", "w",
                   "-", "0", "4", "-", "1", "7">>>>,
     anthropic |-> <<<<"c", "l", "a", "u", "d", "e", "-", "3", "-", "o", "p",
                      "u", "s", "-", "2", "0", "2", "4", "0", "2", "2", "9">>,
                    <<"c", "l", "a", "u", "d", "e", "-", "3", "-", "s", "o",
                      "n", "n", "e", "t", "-", "2", "0", "2", "4", "0", "2",
                      "2", "9">>,
                    <<"c", "l", "a", "u", "d", "e", "-", "3", "-", "h", "a",
                      "i", "k", "u", "-", "2", "0", "2", "4", "0", "3", "0",
                      "7">>>>]

\* an id no provider has, and the ids a request may name ("" for none)
UnknownModel == <<"g", "p", "t", "-", "5">>
RequestedModels ==
    {<<>>, UnknownModel} \cup {modelMapping[i].id : i \in DOMAIN modelMapping}

\* the entry of modelMapping for a model it has
EntryOf(model) ==
    modelMapping[CHOOSE i \in DOMAIN modelMapping : modelMapping[i].id = model]

Raise(detail) == [kind |-> "throw", value |-> detail]

hasApiKey(provider) == provider \in apiKeys

getDefaultModel ==
    IF hasApiKey("google") THEN Return(modelCategories.google[1])
    ELSE IF hasApiKey("openai") THEN Return(modelCategories.openai[2])
    ELSE IF hasApiKey("anthropic") THEN Return(modelCategories.anthropic[3])
    ELSE Raise("No API keys provided. At least one of OPENAI_API_KEY, GOOGLE_API_KEY, or ANTHROPIC_API_KEY must be set.")

\* modelCategories.<provider>.includes(model)
Lists(provider, model) ==
    \E i \in DOMAIN modelCategories[provider] : modelCategories[provider][i] = model

getModelProvider(model) ==
    IF Lists("openai", model) THEN "openai"
    ELSE IF Lists("google", model) THEN "google"
    ELSE IF Lists("anthropic", model) THEN "anthropic"
    ELSE "undefined"

isModelAvailable(model) ==
    /\ getModelProvider(model) /= "undefined"
    /\ hasApiKey(getModelProvider(model))

\* the models of a provider with their names, in the order of the category,
\* if its key is set
ModelsOf(provider) ==
    IF hasApiKey(provider)
    THEN [i \in DOMAIN modelCategories[provider] |->
            EntryOf(modelCategories[provider][i])]
    ELSE <<>>

\* the models of every provider, whatever keys are set
AllModels == modelMapping

getAvailableModels == ModelsOf("openai") \o ModelsOf("google") \o ModelsOf("anthropic")

\* validateModelInput: the validation record, or the exception of
\* getDefaultModel when no model is named and no key is set
validateModelInput(model) ==
    IF model = <<>>
    THEN IF getDefaultModel.kind = "throw" THEN getDefaultModel
         ELSE Return([valid |-> TRUE, suggestedModel |-> ModelId(getDefaultModel.value),
                      error |-> NoMessage])
    ELSE IF ~isModelAvailable(model)
    THEN IF getDefaultModel.kind = "return"
         THEN Return([valid |-> FALSE, suggestedModel |-> ModelId(getDefaultModel.value),
                      error |-> Message("Model \"${input.model}\" is not available. Try using \"${suggestedModel}\" instead.",
                                        model, "")])
         ELSE Return([valid |-> FALSE, suggestedModel |-> UndefinedModelId,
                      error |-> Message("Model \"${input.model}\" is not available and no alternative models are available. Please provide a valid API key.",
                                        model, "")])
    ELSE Return([valid |-> TRUE, suggestedModel |-> UndefinedModelId, error |-> NoMessage])

\* pRetry(request, { retries: MAX_RETRIES }) on a provider whose next `fails'
\* requests fail: the requests made, and whether the last one succeeded
pRetry(fails) ==
    [attempts |-> IF fails <= MAX_RETRIES THEN fails + 1 ELSE MAX_RETRIES + 1,
     ok |-> fails <= MAX_RETRIES]

\* the object returned when the model cannot be used
ModelNotAvailable(model) ==
    Answer("None",
           Message("Model ${input.model} is not available or the required API key is not provided.",
                   model, ""),
           NoModelId, ModelMap(getAvailableModels))

\* the catch block of generateStructuredReview and generateFreeformReview
ReviewNotGenerated(detail) ==
    Answer("None", Message("Error generating review: ${(error as Error).message}", <<>>, detail),
           NoModelId, ModelMap(getAvailableModels))

\* { review: result.object, modelUsed: modelMapping[input.model] || input.model }
Reviewed(model) ==
    [Answer(EntryOf(model).name, NoMessage, NoModelId, NoModelMap) EXCEPT !.review = TRUE]

\* generateStructuredReview: what it returns and the provider requests made
generateStructuredReview(model, fails) ==
    IF ~isModelAvailable(model)
    THEN [result |-> ModelNotAvailable(model), providerCalls |-> 0]
    ELSE [result |-> IF pRetry(fails).ok THEN Reviewed(model)
                     ELSE ReviewNotGenerated("the provider's error"),
          providerCalls |-> pRetry(fails).attempts]

\* generateFreeformReview: the same with generateText for generateObject
generateFreeformReview(model, fails) ==
    IF ~isModelAvailable(model)
    THEN [result |-> ModelNotAvailable(model), providerCalls |-> 0]
    ELSE [result |-> IF pRetry(fails).ok THEN Reviewed(model)
                     ELSE ReviewNotGenerated("the provider's error"),
          providerCalls |-> pRetry(fails).attempts]

\* sanitizedModels[safeKey] = String(modelName): a key the object has keeps
\* its place and takes the new value
Assigned(entries, key, value) ==
    IF \E i \in DOMAIN entries : entries[i].id = key
    THEN [i \in DOMAIN entries |->
            IF entries[i].id = key THEN [id |-> key, name |-> value] ELSE entries[i]]
    ELSE Append(entries, [id |-> key, name |-> value])

RECURSIVE SanitizedModels(_, _, _)
\* the loop of sanitizeModelIds over Object.entries(models), from the i-th on
SanitizedModels(models, i, sanitizedModels) ==
    IF i > Len(models) THEN sanitizedModels
    ELSE SanitizedModels(models, i + 1,
                         Assigned(sanitizedModels, SafeKey(models[i].id), models[i].name))

sanitizeModelIds(data) ==
    IF data.availableModels.type = "object"
    THEN [data EXCEPT !.availableModels =
                         ModelMap(SanitizedModels(data.availableModels.entries, 1, <<>>))]
    ELSE data

\* JSON.parse(sanitizeJson(JSON.stringify(value))) on an object of strings:
\* the text JSON.stringify gives is valid and sanitizeJson returns a valid
\* text as it is, so the result is the value without its undefined properties
JsonRoundTrip(value) ==
    Return([value EXCEPT !.suggestedModel =
                            IF @.type = "undefined" THEN NoModelId ELSE @])

fullySanitize(data) ==
    IF JsonRoundTrip(sanitizeModelIds(data)).kind = "return"
    THEN JsonRoundTrip(sanitizeModelIds(data)).value
    ELSE data

\* an exception leaves the handler
Uncaught(detail) == Raise(detail)

\* the catch block of the two review handlers
ReviewCatch(detail) ==
    Return(fullySanitize(Answer("None",
                                Message("Error generating review: ${(error as Error).message}", <<>>, detail),
                                NoModelId, ModelMap(getAvailableModels))))

\* the handler after validateModelInput has returned: the answer to a model
\* that cannot be used, or the review of the model chosen
Validated(model, validation, generated) ==
    IF ~validation.valid
    THEN [out |-> Return(fullySanitize(Answer("None", validation.error,
                                               validation.suggestedModel,
                                               ModelMap(getAvailableModels)))),
          providerCalls |-> 0]
    ELSE [out |-> Return(fullySanitize(generated.result)),
          providerCalls |-> generated.providerCalls]

\* if (validation.suggestedModel) input.model = validation.suggestedModel
ModelToUse(model, validation) ==
    IF validation.kind = "return" /\ validation.value.suggestedModel.type = "string"
    THEN validation.value.suggestedModel.id
    ELSE model

reviewCodeStructured(model, fails) ==
    IF validateModelInput(model).kind = "throw"
    THEN [out |-> ReviewCatch(validateModelInput(model).value), providerCalls |-> 0]
    ELSE Validated(model, validateModelInput(model).value,
                   generateStructuredReview(ModelToUse(model, validateModelInput(model)), fails))

reviewCodeFreeform(model, fails) ==
    IF validateModelInput(model).kind = "throw"
    THEN [out |-> ReviewCatch(validateModelInput(model).value), providerCalls |-> 0]
    ELSE Validated(model, validateModelInput(model).value,
                   generateFreeformReview(ModelToUse(model, validateModelInput(model)), fails))

\* listModels: getAvailableModels and getProviderSummary do not throw
listModels ==
    Return(fullySanitize([Answer("None", NoMessage, NoModelId, ModelMap(getAvailableModels))
                          EXCEPT !.serverInfo = TRUE]))

\* ---------------------------------------------------------------------------
\* The code reviewer over stdio (src/src/index.ts, second file of that name):
\* perform_code_review with getGitDiff (src/unnamed/part_012, the file with
\* isDebugMode) and getLLMReview (src/unnamed/part_013). `executed' holds the
\* commands handed to execSync, `output' the calls on console: console.log
\* writes to standard output, console.warn and console.error to standard error.

RevParse == [program |-> "git rev-parse --is-inside-work-tree", base |-> <<>>]
Fetch(base) ==
    [program |-> "git fetch origin ${base}:${base} --no-tags --quiet", base |-> base]
Diff(target, base) ==
    [program |-> IF target = "staged" THEN "git diff --staged --patch-with-raw --unified=10"
                 ELSE IF target = "HEAD" THEN "git diff HEAD --patch-with-raw --unified=10"
                 ELSE "git diff ${base}...HEAD --patch-with-raw --unified=10",
     base |-> base]

ConsoleLog(notice) == [stream |-> "stdout", notice |-> notice]
ConsoleError(notice) == [stream |-> "stderr", notice |-> notice]
ConsoleWarn(notice) == [stream |-> "stderr", notice |-> notice]

\* the argument baseBranch: a string, or undefined when diffBase is not given
Base(s) == [type |-> "string", text |-> s]
NoBase == [type |-> "undefined", text |-> <<>>]
BaseBranches ==
    {NoBase, Base(<<>>), Base(<<SP>>), Base(<<"m", "a", "i", "n">>),
     Base(<<"v", "1", ".", "0", "/", "a", "-", "b", "_", "C">>),
     Base(<<"m", ";", "x">>), Base(<<"m", SP, "x">>)}

\* what git does in the working directory: whether rev-parse and fetch
\* succeed, and whether diff succeeds and with what output
DiffRuns ==
    {[ok |-> FALSE, text |-> <<>>], [ok |-> TRUE, text |-> <<>>],
     [ok |-> TRUE, text |-> <<NL>>], [ok |-> TRUE, text |-> <<"+", "x", NL>>]}
Gits == [repository : BOOLEAN, fetch : BOOLEAN, diff : DiffRuns]

\* the bases and the gits tried with a target: staged and HEAD fetch nothing
\* and do not read the base
BasesFor(target) ==
    IF target = "branch_diff" THEN BaseBranches ELSE {NoBase, Base(<<"m", "a", "i", "n">>)}
GitsFor(target) ==
    IF target = "branch_diff" THEN Gits ELSE {git \in Gits : git.fetch}

Targets == {"staged", "HEAD", "branch_diff"}

\* s === ""
Empty(s) == s = <<>>

\* s.trim() === ""
Blank(s) == \A i \in DOMAIN s : s[i] \in WS

\* the base as it was given
Unsanitized(baseBranch) == baseBranch

\* baseBranch.replace(/[^a-zA-Z0-9_.\-/]/g, "")
sanitizedBaseBranch(baseBranch) ==
    ReplaceAll(RegExp(<<NotOne(Lower \cup Upper \cup Digits \cup {"_", ".", "-", "/"})>>),
               <<>>, baseBranch)

NoChangesFound ==
    <<"N", "o", " ", "c", "h", "a", "n", "g", "e", "s", " ", "f", "o", "u",
      "n", "d", " ", "f", "o", "r", " ", "t", "h", "e", " ", "s", "p", "e",
      "c", "i", "f", "i", "e", "d", " ", "t", "a", "r", "g", "e", "t", ".">>

\* the outer catch block of getGitDiff, after the commands executed and the
\* console calls made so far
GitDiffFailed(done, said, detail) ==
    [out |-> Raise(detail),
     executed |-> done,
     output |-> said
                \o <<ConsoleError("[MCP Server Git] Error getting git diff for target"),
                     ConsoleError("[MCP Server Git] Command:")>>
                \o (IF debugMode
                    THEN <<ConsoleError("[MCP Server Git] Stderr:"),
                           ConsoleError("[MCP Server Git] Stdout:")>>
                    ELSE <<>>)]

\* from `if (isDebugMode()) console.log(...)' to the end of the try block
RunDiff(command, done, said, diff) ==
    IF ~diff.ok
    THEN GitDiffFailed(Append(done, command), said,
                       "Failed to get git diff. Git error: ${errorMessage}.")
    ELSE [out |-> Return(IF Blank(diff.text) THEN NoChangesFound ELSE diff.text),
          executed |-> Append(done, command),
          output |-> said]

\* the notice of the command about to be executed
Executing(said) ==
    IF debugMode THEN Append(said, ConsoleLog("[MCP Server Git] Executing:")) ELSE said

\* a fetch whose failure ends the call
FetchOrFail(base, git) ==
    IF git.fetch
    THEN RunDiff(Diff("branch_diff", base), <<RevParse, Fetch(base)>>, Executing(<<>>), git.diff)
    ELSE GitDiffFailed(<<RevParse, Fetch(base)>>, <<>>,
                       "Failed to get git diff. Git error: ${fetchError.message}.")

\* case "branch_diff" with a base that passed the checks: the fetch, whose
\* failure is only warned about, then the diff
BranchDiff(base, git) ==
    RunDiff(Diff("branch_diff", base), <<RevParse, Fetch(base)>>,
            Executing(IF git.fetch THEN <<>>
                      ELSE <<ConsoleWarn("[MCP Server Git] Warning during 'git fetch' for base branch")>>),
            git.diff)

getGitDiff(target, baseBranch, git) ==
    IF ~git.repository
    THEN [out |-> Raise("Execution directory is not a git repository or git command is not available. Please run from a git project root."),
          executed |-> <<RevParse>>,
          output |-> <<ConsoleError("[MCP Server Git] Current directory is not a git repository or git is not found.")>>]
    ELSE IF target /= "branch_diff"
    THEN RunDiff(Diff(target, <<>>), <<RevParse>>, Executing(<<>>), git.diff)
    ELSE IF baseBranch.type = "undefined" \/ Blank(baseBranch.text)
    THEN GitDiffFailed(<<RevParse>>, <<>>,
                       "Failed to get git diff. Git error: Base branch/commit is required for 'branch_diff' target and cannot be empty.")
    ELSE IF sanitizedBaseBranch(baseBranch.text) /= baseBranch.text
    THEN GitDiffFailed(<<RevParse>>, <<>>,
                       "Failed to get git diff. Git error: Invalid characters in base branch name.")
    ELSE BranchDiff(sanitizedBaseBranch(baseBranch.text), git)

\* what the provider does with a request
Llms == {"review", "review with warnings", "fails"}

\* getLLMReview: its outcome, its console calls and the requests it made
getLLMReview(provider, llm) ==
    IF ~hasApiKey(provider)
    THEN [out |-> Raise("API key for ${provider} is not configured. Please set the appropriate environment variable."),
          output |-> <<>>, providerCalls |-> 0]
    ELSE IF llm = "fails"
    THEN [out |-> Raise("LLM API call failed for ${provider} (${modelName}): ${detailedMessage}"),
          output |-> <<ConsoleLog("[MCP Server LLM] Requesting review from"),
                       ConsoleError("[MCP Server LLM] Error getting LLM review from")>>,
          providerCalls |-> 1]
    ELSE [out |-> Return(<<"L", "G", "T", "M">>),
          output |-> <<ConsoleLog("[MCP Server LLM] Requesting review from")>>
                     \o (IF llm = "review with warnings"
                         THEN <<ConsoleWarn("[MCP Server LLM] Warning from")>> ELSE <<>>)
                     \o <<ConsoleLog("[MCP Server LLM] Review received from")>>,
          providerCalls |-> 1]

\* the object perform_code_review returns
ToolResult(isError, template, detail) ==
    [Answer("", NoMessage, NoModelId, NoModelMap)
     EXCEPT !.isError = isError, !.content = Message(template, <<>>, detail)]

\* the catch block of perform_code_review
ToolCatch(detail) ==
    Return(ToolResult("true", "Error performing code review: ${error.message}", detail))

\* perform_code_review once getGitDiff has returned a diff with changes:
\* generateLLMReview and the answer
Reviewing(diff, review) ==
    [out |-> IF review.out.kind = "throw" THEN ToolCatch(review.out.value)
             ELSE Return(ToolResult("false", "${reviewResult}", "")),
     providerCalls |-> review.providerCalls,
     executed |-> diff.executed,
     output |-> <<ConsoleError("[MCP Server Tool] Received 'perform_code_review' request.")>>
                \o diff.output
                \o (IF debugMode
                    THEN <<ConsoleError("[MCP Server Tool] Git diff obtained successfully.")>>
                    ELSE <<>>)
                \o review.output
                \o (IF review.out.kind = "throw"
                    THEN <<ConsoleError("[MCP Server Tool] Error in 'perform_code_review' tool:")>>
                    ELSE <<ConsoleError("[MCP Server Tool] LLM review generated successfully.")>>)]

\* perform_code_review after getGitDiff
Diffed(diff, review) ==
    IF diff.out.kind = "throw"
    THEN [out |-> ToolCatch(diff.out.value), providerCalls |-> 0,
          executed |-> diff.executed,
          output |-> <<ConsoleError("[MCP Server Tool] Received 'perform_code_review' request.")>>
                     \o diff.output
                     \o <<ConsoleError("[MCP Server Tool] Error in 'perform_code_review' tool:")>>]
    ELSE IF diff.out.value = NoChangesFound
    THEN [out |-> Return(ToolResult("absent", "No changes detected for review.", "")),
          providerCalls |-> 0,
          executed |-> diff.executed,
          output |-> <<ConsoleError("[MCP Server Tool] Received 'perform_code_review' request.")>>
                     \o diff.output
                     \o <<ConsoleError("[MCP Server Tool] No changes detected for review.")>>]
    ELSE Reviewing(diff, review)

perform_code_review(target, baseBranch, provider, git, llm) ==
    Diffed(getGitDiff(target, baseBranch, git), getLLMReview(provider, llm))

\* the state of a server whose environment sets the keys of some providers
InitTools ==
    /\ NoText /\ NoProxy /\ NoInstalls /\ NoSend /\ NoHttp /\ NoStart /\ NoFormat /\ NoEnv /\ NoParse
    /\ apiKeys \in SUBSET Providers
    /\ debugMode \in BOOLEAN
    /\ toolCall = NoToolCall
    /\ executed = <<>>
    /\ output = <<>>

\* a call of one of the review tools, made when no call is being handled,
\* has been answered
Answered(tool, args, answer) ==
    /\ toolCall = NoToolCall
    /\ toolCall' = [tool |-> tool, args |-> args,
                    providerCalls |-> answer.providerCalls, out |-> answer.out]
    /\ executed' = <<>>
    /\ output' = <<>>
    /\ UNCHANGED <<apiKeys, debugMode, exceptTools>>

ReviewCodeStructured(model, fails) ==
    Answered("reviewCodeStructured", [NoArgs EXCEPT !.model = model, !.fails = fails],
             reviewCodeStructured(model, fails))

ReviewCodeFreeform(model, fails) ==
    Answered("reviewCodeFreeform", [NoArgs EXCEPT !.model = model, !.fails = fails],
             reviewCodeFreeform(model, fails))

ListModels ==
    Answered("listModels", NoArgs, [out |-> listModels, providerCalls |-> 0])

\* a call of perform_code_review has been answered
Performed(args, performed) ==
    /\ toolCall = NoToolCall
    /\ toolCall' = [tool |-> "perform_code_review", args |-> args,
                    providerCalls |-> performed.providerCalls, out |-> performed.out]
    /\ executed' = performed.executed
    /\ output' = performed.output
    /\ UNCHANGED <<apiKeys, debugMode, exceptTools>>

PerformCodeReview(target, baseBranch, provider, git, llm) ==
    Performed([NoArgs EXCEPT !.target = target, !.baseBranch = baseBranch,
                             !.provider = provider, !.git = git, !.llm = llm],
              perform_code_review(target, baseBranch, provider, git, llm))

\* getGitDiff called by itself, as its tests call it
GotGitDiff(args, diff) ==
    /\ toolCall = NoToolCall
    /\ toolCall' = [tool |-> "getGitDiff", args |-> args, providerCalls |-> 0,
                    out |-> diff.out]
    /\ executed' = diff.executed
    /\ output' = diff.output
    /\ UNCHANGED <<apiKeys, debugMode, exceptTools>>

GetGitDiff(target, baseBranch, git) ==
    GotGitDiff([NoArgs EXCEPT !.target = target, !.baseBranch = baseBranch, !.git = git],
               getGitDiff(target, baseBranch, git))

\* the answer has been handed to the transport; the server, which handles
\* the requests of its one client in turn, awaits the next one
AwaitRequest ==
    /\ toolCall /= NoToolCall
    /\ toolCall' = NoToolCall
    /\ executed' = <<>>
    /\ output' = <<>>
    /\ UNCHANGED <<apiKeys, debugMode, exceptTools>>

NextTools ==
    \/ \E model \in RequestedModels, fails \in 0..MaxFailures :
          ReviewCodeStructured(model, fails)
    \/ \E model \in RequestedModels, fails \in 0..MaxFailures :
          ReviewCodeFreeform(model, fails)
    \/ ListModels
    \/ \E target \in Targets, provider \in Providers, llm \in Llms :
          \E baseBranch \in BasesFor(target), git \in GitsFor(target) :
          PerformCodeReview(target, baseBranch, provider, git, llm)
    \/ \E target \in Targets :
          \E baseBranch \in BasesFor(target), git \in GitsFor(target) :
          GetGitDiff(target, baseBranch, git)
    \/ AwaitRequest

SpecTools == InitTools /\ [][NextTools]_vars

\* ---------------------------------------------------------------------------
\* Claims about the tools

\* the tools of the two servers
Tools == {"reviewCodeStructured", "reviewCodeFreeform", "listModels", "perform_code_review"}

\* a review cannot be produced for the call of a review tool: no key is set,
\* the model named cannot be used, or the provider fails every request of pRetry
ReviewFails(args) ==
    \/ apiKeys = {}
    \/ args.model /= <<>> /\ ~isModelAvailable(args.model)
    \/ args.fails > MAX_RETRIES

\* the characters a base may be made of
BaseChars == Lower \cup Upper \cup Digits \cup {"_", ".", "-", "/"}

\* the base of a branch_diff is missing, blank or holds another character
BadBase(args) ==
    /\ args.target = "branch_diff"
    /\ \/ args.baseBranch.type = "undefined"
       \/ \A i \in DOMAIN args.baseBranch.text : args.baseBranch.text[i] \in WS
       \/ \E i \in DOMAIN args.baseBranch.text : args.baseBranch.text[i] \notin BaseChars

\* the diff cannot be acquired
DiffFails(args) == ~args.git.repository \/ BadBase(args) \/ ~args.git.diff.ok

\* there are changes to review and the provider cannot be asked, or fails
LlmFails(args) ==
    /\ ~DiffFails(args)
    /\ \E i \in DOMAIN args.git.diff.text : args.git.diff.text[i] \notin WS
    /\ args.provider \notin apiKeys \/ args.llm = "fails"

\* C12: a failure inside a tool handler (model validation, the provider call
\* after its retries are exhausted, diff acquisition) never leaves the handler
\* as an exception: reviewCodeStructured, reviewCodeFreeform and listModels
\* return an object with modelUsed "None" and an error string,
\* perform_code_review returns isError true with the error message in its
\* content.
C12_FailuresAreAnswered ==
    /\ toolCall.tool \in Tools => toolCall.out.kind = "return"
    /\ ( /\ toolCall.tool \in {"reviewCodeStructured", "reviewCodeFreeform"}
         /\ ReviewFails(toolCall.args) )
       => /\ toolCall.out.value.modelUsed = "None"
          /\ toolCall.out.value.error.type = "string"
    /\ toolCall.tool = "listModels" => toolCall.out.value.modelUsed = "None"
    /\ ( /\ toolCall.tool = "perform_code_review"
         /\ DiffFails(toolCall.args) \/ LlmFails(toolCall.args) )
       => /\ toolCall.out.value.isError = "true"
          /\ toolCall.out.value.content.type = "string"
          /\ toolCall.out.value.content.template = "Error performing code review: ${error.message}"
          /\ toolCall.out.value.content.detail /= ""

\* each kind of failure has been answered: no key at all, a provider that
\* failed the four requests, a diff that git could not produce
C12_Witness ==
    \/ /\ toolCall.tool = "reviewCodeStructured"
       /\ toolCall.args.model = <<>> /\ apiKeys = {}
       /\ toolCall.out.value.modelUsed = "None"
    \/ /\ toolCall.tool = "reviewCodeFreeform"
       /\ toolCall.args.fails > MAX_RETRIES /\ toolCall.providerCalls = MAX_RETRIES + 1
       /\ toolCall.out.value.modelUsed = "None"
    \/ /\ toolCall.tool = "perform_code_review"
       /\ toolCall.args.git.repository /\ ~toolCall.args.git.diff.ok
       /\ toolCall.out.value.isError = "true"

\* no provider whose key is set has the model
Unusable(model) ==
    ~\E provider \in apiKeys :
        \E i \in DOMAIN modelCategories[provider] : modelCategories[provider][i] = model

\* the id with each "." and "-" turned into "_"
Underscored(id) == [i \in DOMAIN id |-> IF id[i] \in {".", "-"} THEN "_" ELSE id[i]]

\* the models of the providers whose key is set, each under its renamed id
ConfiguredModels ==
    UNION {{[id |-> Underscored(modelCategories[provider][i]),
             name |-> EntryOf(modelCategories[provider][i]).name] :
               i \in DOMAIN modelCategories[provider]} : provider \in apiKeys}

\* C13: a review request naming a model whose provider has no API key set, or
\* an id the server does not know, makes no request to any LLM provider; it is
\* answered with modelUsed "None", an error, and an availableModels map that
\* lists exactly the models of the providers whose key is set (one entry per
\* model, under the id with "." and "-" turned into "_").
C13_UnusableModelAsksNoProvider ==
    ( /\ toolCall.tool \in {"reviewCodeStructured", "reviewCodeFreeform"}
      /\ toolCall.args.model /= <<>>
      /\ Unusable(toolCall.args.model) )
    => /\ toolCall.providerCalls = 0
       /\ toolCall.out.kind = "return"
       /\ toolCall.out.value.modelUsed = "None"
       /\ toolCall.out.value.error.type = "string"
       /\ ~toolCall.out.value.review
       /\ toolCall.out.value.availableModels.type = "object"
       /\ LET entries == toolCall.out.value.availableModels.entries
          IN /\ {entries[i] : i \in DOMAIN entries} = ConfiguredModels
             /\ Len(entries) = Cardinality(ConfiguredModels)

\* a model of OpenAI was asked for while only other providers have a key
C13_Witness ==
    /\ toolCall.tool = "reviewCodeStructured"
    /\ toolCall.args.model = modelCategories.openai[1]
    /\ "openai" \notin apiKeys /\ apiKeys /= {}
    /\ toolCall.args.fails = 0
    /\ toolCall.providerCalls = 0
    /\ toolCall.out.value.availableModels.entries /= <<>>

\* C14: whatever provider keys are set, at least one being set, a listModels
\* request returns a response whose modelUsed is the string "None" and whose
\* availableModels keys are made of lowercase ASCII letters, digits and
\* underscores only.
C14_ListModelsKeysAreSafe ==
    (toolCall.tool = "listModels" /\ apiKeys /= {})
    => /\ toolCall.out.kind = "return"
       /\ toolCall.out.value.modelUsed = "None"
       /\ toolCall.out.value.availableModels.type = "object"
       /\ toolCall.out.value.availableModels.entries /= <<>>
       /\ \A i \in DOMAIN toolCall.out.value.availableModels.entries :
            LET key == toolCall.out.value.availableModels.entries[i].id
            IN key /= <<>> /\ \A j \in DOMAIN key : key[j] \in Lower \cup Digits \cup {"_"}

\* the models of one configured provider, whose ids hold "." and "-", listed
C14_Witness ==
    /\ toolCall.tool = "listModels"
    /\ apiKeys = {"google"}
    /\ Len(toolCall.out.value.availableModels.entries) = Len(modelCategories.google)
    /\ toolCall.out.value.serverInfo

\* C18: while the stdio server runs, every write to standard output is an MCP
\* protocol message: all diagnostic logging, the notices made while the git
\* diff is acquired and while the LLM review is requested and received
\* included, goes to standard error. No console call of a tool call writes
\* to standard output.
C18_DiagnosticsGoToStderr ==
    \A i \in DOMAIN output : output[i].stream = "stderr"

\* a git fetch or git diff command is among those executed
FetchedOrDiffed == \E i \in DOMAIN executed : executed[i] /= RevParse

\* C19: getGitDiff executes no git fetch and no git diff command unless the
\* repository check succeeded and, for the target branch_diff, the base is
\* non-empty and made only of the characters [a-zA-Z0-9_.-/]; when the
\* repository check fails, or the base is empty, blank or holds another
\* character, getGitDiff throws and has run no git command after the check.
C19_NoGitCommandOnBadInput ==
    /\ toolCall.tool \in {"getGitDiff", "perform_code_review"} /\ FetchedOrDiffed
       => /\ toolCall.args.git.repository
          /\ toolCall.args.target = "branch_diff"
             => /\ toolCall.args.baseBranch.type = "string"
                /\ toolCall.args.baseBranch.text /= <<>>
                /\ \A i \in DOMAIN toolCall.args.baseBranch.text :
                     toolCall.args.baseBranch.text[i] \in BaseChars
    /\ ( /\ toolCall.tool = "getGitDiff"
         /\ ~toolCall.args.git.repository \/ BadBase(toolCall.args) )
       => /\ toolCall.out.kind = "throw"
          /\ executed = <<RevParse>>

\* a base holding ";" was refused after the repository check
C19_Witness ==
    /\ toolCall.tool = "getGitDiff"
    /\ toolCall.args.target = "branch_diff"
    /\ toolCall.args.git.repository
    /\ toolCall.args.baseBranch = Base(<<"m", ";", "x">>)
    /\ toolCall.out.kind = "throw"
    /\ executed = <<RevParse>>

\* C20: getGitDiff with target branch_diff and a valid base, when the git
\* fetch command fails: git diff <base>...HEAD is run after it and what that
\* diff gives is what the call gives (its output, the notice of no changes for
\* a blank output, its failure); the failure of the fetch is never raised.
C20_FetchFailureIsNotRaised ==
    ( /\ toolCall.tool = "getGitDiff"
      /\ toolCall.args.target = "branch_diff"
      /\ toolCall.args.git.repository /\ ~BadBase(toolCall.args)
      /\ ~toolCall.args.git.fetch )
    => /\ executed = <<RevParse, Fetch(toolCall.args.baseBranch.text),
                       Diff("branch_diff", toolCall.args.baseBranch.text)>>
       /\ toolCall.out.kind = "throw" <=> ~toolCall.args.git.diff.ok
       /\ toolCall.out.kind = "throw"
          => toolCall.out.value = "Failed to get git diff. Git error: ${errorMessage}."
       /\ toolCall.out.kind = "return"
          => toolCall.out.value = IF \A i \in DOMAIN toolCall.args.git.diff.text :
                                       toolCall.args.git.diff.text[i] \in WS
                                  THEN NoChangesFound
                                  ELSE toolCall.args.git.diff.text

\* the fetch failed and the output of the diff was returned
C20_Witness ==
    /\ toolCall.tool = "getGitDiff"
    /\ toolCall.args.target = "branch_diff"
    /\ toolCall.args.baseBranch = Base(<<"m", "a", "i", "n">>)
    /\ ~toolCall.args.git.fetch
    /\ Len(executed) = 3
    /\ toolCall.out.kind = "return"
    /\ toolCall.out.value = <<"+", "x", NL>>

\* ---------------------------------------------------------------------------
\* The code reviewer process (src/src/index.ts, second file of that name):
\* setupTransport, the handlers of SIGINT and SIGTERM, the onclose handler of
\* the transport, and the requests served once connected.

MAX_CONNECTION_ATTEMPTS == 3

\* main() has registered the tool and enters the loop of setupTransport
InitReviewer ==
    /\ NoText /\ NoProxy /\ NoInstalls /\ NoSend /\ NoHttp /\ NoFormat /\ NoEnv /\ NoParse
    /\ apiKeys \in SUBSET Providers
    /\ debugMode \in BOOLEAN
    /\ toolCall = NoToolCall
    /\ executed = <<>>
    /\ output = <<>>
    /\ connectionAttempts = 0
    /\ connected = FALSE
    /\ waited = 0
    /\ process = At("connecting")

\* a failed attempt ends the process whatever attempts are left
ExitAtOnce(attempts) == Exited(1, "setupTransport")

\* the catch block of the loop: wait for the retry if attempts are left,
\* process.exit(1) otherwise
AfterFailure(attempts) ==
    IF attempts < MAX_CONNECTION_ATTEMPTS THEN At("waiting")
    ELSE Exited(1, "setupTransport")

\* one pass of the loop body up to its first await completing: the transport
\* is built and server.connect resolves (ok) or rejects
Attempt(ok) ==
    /\ process.state = "connecting"
    /\ ~connected /\ connectionAttempts < MAX_CONNECTION_ATTEMPTS
    /\ connectionAttempts' = connectionAttempts + 1
    /\ connected' = ok
    /\ process' = IF ok THEN At("running") ELSE AfterFailure(connectionAttempts + 1)
    /\ UNCHANGED <<waited, exceptStart>>

\* the timer of CONNECTION_RETRY_DELAY_MS fires and the loop goes round
RetryDelayElapsed ==
    /\ process.state = "waiting"
    /\ waited' = waited + 1
    /\ process' = At("connecting")
    /\ UNCHANGED <<connectionAttempts, connected, exceptStart>>

\* transport.onclose, set once connected
TransportClosed ==
    /\ process.state = "running"
    /\ process' = Exited(1, "onclose")
    /\ UNCHANGED <<connectionAttempts, connected, waited, exceptStart>>

\* process.on("SIGINT"), process.on("SIGTERM"): registered before main() runs
Signal(signal) ==
    /\ process.state \in {"connecting", "waiting", "running"}
    /\ process' = Exited(0, signal)
    /\ UNCHANGED <<connectionAttempts, connected, waited, exceptStart>>

\* a request for perform_code_review served by the connected server
Request(target, baseBranch, provider, git, llm) ==
    /\ process.state = "running"
    /\ PerformCodeReview(target, baseBranch, provider, git, llm)

\* the next request awaited by the connected server
Responded ==
    /\ process.state = "running"
    /\ AwaitRequest

NextReviewer ==
    \/ \E ok \in BOOLEAN : Attempt(ok)
    \/ RetryDelayElapsed
    \/ TransportClosed
    \/ \E signal \in {"SIGINT", "SIGTERM"} : Signal(signal)
    \/ \E target \in Targets, llm \in {"review", "fails"} :
          \E baseBranch \in BasesFor(target),
             git \in {g \in GitsFor(target) : g.repository} :
          Request(target, baseBranch, "google", git, llm)
    \/ Responded

SpecReviewer == InitReviewer /\ [][NextReviewer]_vars

MaxItems == 2

Scalars == {JsUndefined, JsNull, JsNumber(1), JsBoolean(TRUE), JsString(<<"x">>)}
Keys == {<<"a">>, <<"a", "-", "b">>, <<"a", ".", "b">>, <<"a", SP, "b">>, <<"a", "_", "b">>}

\* the arrays and the objects (no key twice) made of the values of S
ArraysOf(S, n) == {JsArray(items) : items \in UNION {[1..k -> S] : k \in 0..n}}
ObjectsOf(S, n) ==
    {JsObject(entries) :
        entries \in {e \in UNION {[1..k -> [key : Keys, value : S]] : k \in 0..n} :
                        \A i, j \in DOMAIN e : e[i].key = e[j].key => i = j}}

\* the values handed to the function: scalars, arrays and objects of scalars,
\* and arrays and objects of one of those
FlatValues == Scalars \cup ArraysOf(Scalars, MaxItems) \cup ObjectsOf(Scalars, MaxItems)
FormatInputs == FlatValues \cup ArraysOf(FlatValues, 1) \cup ObjectsOf(FlatValues, 1)

\* the decimal digit of a number below ten
DigitOf(n) == <<"0", "1", "2", "3", "4", "5", "6", "7", "8", "9">>[n + 1]

RECURSIVE StringOf(_), Join(_, _)
\* String(value)
StringOf(value) ==
    IF value.type = "undefined" THEN <<"u", "n", "d", "e", "f", "i", "n", "e", "d">>
    ELSE IF value.type = "null" THEN <<"n", "u", "l", "l">>
    ELSE IF value.type = "number" THEN <<DigitOf(value.num)>>
    ELSE IF value.type = "boolean"
    THEN (IF value.num = 1 THEN <<"t", "r", "u", "e">> ELSE <<"f", "a", "l", "s", "e">>)
    ELSE IF value.type = "string" THEN value.text
    ELSE IF value.type = "object"
    THEN <<"[", "o", "b", "j", "e", "c", "t", SP, "O", "b", "j", "e", "c", "t", "]">>
    ELSE Join(value.items, 1)

\* Array.prototype.join from the i-th item on: null and undefined give ""
Join(items, i) ==
    IF i > Len(items) THEN <<>>
    ELSE (IF i > 1 THEN <<COMMA>> ELSE <<>>)
         \o (IF items[i].type \in {"null", "undefined"} THEN <<>> ELSE StringOf(items[i]))
         \o Join(items, i + 1)

\* result[safeKey] = value: a key the object has keeps its place
SetProperty(entries, key, value) ==
    IF \E i \in DOMAIN entries : entries[i].key = key
    THEN [i \in DOMAIN entries |->
            IF entries[i].key = key THEN [key |-> key, value |-> value] ELSE entries[i]]
    ELSE Append(entries, [key |-> key, value |-> value])

\* Object.keys(data).some(key => key.includes('-') || key.includes('.'))
HasModelKey(entries) ==
    \E i \in DOMAIN entries : \E j \in DOMAIN entries[i].key : entries[i].key[j] \in {"-", "."}

\* key.replace(/[^a-zA-Z0-9]/g, '_')
AlnumKey(key) ==
    ReplaceAll(RegExp(<<NotOne(Lower \cup Upper \cup Digits)>>), <<L(<<"_">>)>>, key)

\* key.replace(/[^a-zA-Z0-9_]/g, '_')
WordKey(key) ==
    ReplaceAll(RegExp(<<NotOne(Lower \cup Upper \cup Digits \cup {"_"})>>), <<L(<<"_">>)>>, key)

RECURSIVE formatForMcpResponse(_), FormatModels(_, _, _), FormatEntries(_, _, _), FormatItems(_, _)
formatForMcpResponse(data) ==
    IF data.type \in {"null", "undefined"} THEN JsNull
    ELSE IF data.type = "object"
    THEN IF HasModelKey(data.entries)
         THEN JsObject(FormatModels(data.entries, 1, <<>>))
         ELSE JsObject(FormatEntries(data.entries, 1, <<>>))
    ELSE IF data.type = "array" THEN JsArray(FormatItems(data.items, 1))
    ELSE IF data.type \in {"number", "boolean"} THEN data
    ELSE JsString(StringOf(data))

\* the loop over the entries of a model mapping, from the i-th on
FormatModels(entries, i, result) ==
    IF i > Len(entries) THEN result
    ELSE FormatModels(entries, i + 1,
                      SetProperty(result, AlnumKey(entries[i].key),
                                  JsString(StringOf(entries[i].value))))

\* the loop over the entries of another object, from the i-th on
FormatEntries(entries, i, result) ==
    IF i > Len(entries) THEN result
    ELSE FormatEntries(entries, i + 1,
                       SetProperty(result, WordKey(entries[i].key),
                                   formatForMcpResponse(entries[i].value)))

\* data.map(item => formatForMcpResponse(item)) from the i-th item on
FormatItems(items, i) ==
    IF i > Len(items) THEN <<>>
    ELSE <<formatForMcpResponse(items[i])>> \o FormatItems(items, i + 1)

\* a value is about to be handed to the function
InitFormat ==
    /\ NoText /\ NoProxy /\ NoInstalls /\ NoSend /\ NoHttp /\ NoTools /\ NoStart /\ NoEnv /\ NoParse
    /\ formatCall \in [data : FormatInputs, out : {JsUndefined}, done : {FALSE}]

\* the call returns
Format ==
    /\ ~formatCall.done
    /\ formatCall' = [formatCall EXCEPT !.out = formatForMcpResponse(formatCall.data),
                                        !.done = TRUE]
    /\ UNCHANGED exceptFormat

NextFormat == Format

SpecFormat == InitFormat /\ [][NextFormat]_vars

RECURSIVE SameShape(_, _)
\* two values that differ in the names of keys at most: scalars are equal,
\* arrays match item by item, objects match entry by entry
SameShape(a, b) ==
    /\ a.type = b.type
    /\ a.num = b.num
    /\ a.text = b.text
    /\ Len(a.items) = Len(b.items)
    /\ \A i \in DOMAIN a.items : SameShape(a.items[i], b.items[i])
    /\ Len(a.entries) = Len(b.entries)
    /\ \A i \in DOMAIN a.entries : SameShape(a.entries[i].value, b.entries[i].value)

\* C15: formatForMcpResponse returns a value structurally identical to its
\* input except for renamed keys: objects and arrays are preserved
\* recursively, arrays item by item in order, number and boolean scalars are
\* unchanged, and null or undefined is returned unchanged.
C15_FormatKeepsTheStructure ==
    formatCall.done => SameShape(formatCall.data, formatCall.out)

\* ---------------------------------------------------------------------------
\* Claims about the diff without changes

\* the diff command was run and its output is empty or white space
NothingToReview(args) ==
    /\ ~DiffFails(args)
    /\ \A i \in DOMAIN args.git.diff.text : args.git.diff.text[i] \in WS

\* C21: when the output of the diff command is empty or white space only,
\* getGitDiff returns "No changes found for the specified target.", and
\* perform_code_review answers "No changes detected for review." without a
\* request to the provider.
C21_NoChangesAsksNoProvider ==
    /\ toolCall.tool = "getGitDiff" /\ NothingToReview(toolCall.args)
       => toolCall.out = Return(NoChangesFound)
    /\ toolCall.tool = "perform_code_review" /\ NothingToReview(toolCall.args)
       => /\ toolCall.out.kind = "return"
          /\ toolCall.out.value.content
                = Message("No changes detected for review.", <<>>, "")
          /\ toolCall.out.value.isError = "absent"
          /\ toolCall.providerCalls = 0
          /\ \A i \in DOMAIN output : output[i].notice /= "[MCP Server LLM] Requesting review from"

C21_Witness ==
    /\ toolCall.tool = "perform_code_review"
    /\ toolCall.args.git.diff = [ok |-> TRUE, text |-> <<NL>>]
    /\ toolCall.args.provider \in apiKeys
    /\ toolCall.args.llm = "review"
    /\ Len(executed) > 1
    /\ toolCall.out.kind = "return"
    /\ toolCall.out.value.content = Message("No changes detected for review.", <<>>, "")

\* ---------------------------------------------------------------------------
\* The API keys of the code reviewer (src/src/config.ts, getApiKey)

\* the values a variable of the environment is given: not set, set to the
\* empty string, set to a key
EnvValues == {EnvUndefined, EnvString(<<>>), EnvString(<<"k", "1">>), EnvString(<<"k", "2">>)}

\* a || b on strings and undefined: the empty string and undefined are falsy
Or(a, b) == IF a.type = "string" /\ a.text /= <<>> THEN a ELSE b

getApiKey(provider) ==
    IF provider = "google" THEN Or(env["GOOGLE_API_KEY"], env["GEMINI_API_KEY"])
    ELSE IF provider = "openai" THEN env["OPENAI_API_KEY"]
    ELSE IF provider = "anthropic" THEN env["ANTHROPIC_API_KEY"]
    ELSE EnvUndefined

\* the process has been started in some environment
InitApiKey ==
    /\ NoText /\ NoProxy /\ NoInstalls /\ NoSend /\ NoHttp /\ NoTools /\ NoStart /\ NoFormat /\ NoParse
    /\ env \in [EnvNames -> EnvValues]
    /\ keyCall = NoKeyCall

GetApiKey(provider) ==
    /\ ~keyCall.done
    /\ keyCall' = [provider |-> provider, out |-> getApiKey(provider), done |-> TRUE]
    /\ UNCHANGED <<env, exceptEnv>>

NextApiKey == \E provider \in Providers : GetApiKey(provider)

SpecApiKey == InitApiKey /\ [][NextApiKey]_vars

\* the variables getApiKey reads for a provider
Consulted(provider) ==
    IF provider = "google" THEN {"GOOGLE_API_KEY", "GEMINI_API_KEY"}
    ELSE IF provider = "openai" THEN {"OPENAI_API_KEY"}
    ELSE {"ANTHROPIC_API_KEY"}

\* C22: getApiKey(provider) returns undefined whenever every environment
\* variable consulted for the provider is unset or set to the empty string.
C22_NoKeyIsUndefined ==
    ( /\ keyCall.done
      /\ \A name \in Consulted(keyCall.provider) : env[name] \in {EnvUndefined, EnvString(<<>>)} )
    => keyCall.out = EnvUndefined

\* ---------------------------------------------------------------------------
\* Claims about the sanitizer's repairs

\* the text without the white space JSON allows between tokens; the strings
\* of the texts compared hold none
WithoutSpace(s) == SelectSeq(s, LAMBDA c : c \notin JsonWS)

\* ["a" "b"]
MissingCommaText == <<LB, DQ, "a", DQ, SP, DQ, "b", DQ, RB>>

\* C23: sanitizeJson applied to ["a" "b"] returns a text that the standard
\* JSON parser accepts and that parses to the array ["a","b"].
C23_MissingCommaRepaired ==
    (call.op \in SanitizeOps /\ call.arg = MissingCommaText)
    => /\ call.out.kind = "return"
       /\ IsValidJson(call.out.value)
       /\ WithoutSpace(call.out.value) = <<LB, DQ, "a", DQ, COMMA, DQ, "b", DQ, RB>>

C23_Witness ==
    /\ call.op = "sanitizeJson"
    /\ call.arg = MissingCommaText
    /\ ~IsValidJson(call.arg)
    /\ call.out = Return(<<LB, DQ, "a", DQ, COMMA, DQ, "b", DQ, RB>>)

RECURSIVE SplitFrom(_, _, _, _)
\* s.split(sep) for a separator of one character: the pieces of s from
\* position i on, piece being the characters of the current one
SplitFrom(s, sep, i, piece) ==
    IF i > Len(s) THEN <<piece>>
    ELSE IF s[i] = sep THEN <<piece>> \o SplitFrom(s, sep, i + 1, <<>>)
    ELSE SplitFrom(s, sep, i + 1, Append(piece, s[i]))

Split(s, sep) == SplitFrom(s, sep, 1, <<>>)

\* {"a":1}{"b":2}
BackToBackText == <<LC, DQ, "a", DQ, COLON, "1", RC, LC, DQ, "b", DQ, COLON, "2", RC>>

\* C24: sanitizeJson applied to {"a":1}{"b":2} returns a text with a
\* separator (a line feed) between the closing brace of the first object and
\* the opening brace of the second: splitting the result on it yields two
\* texts, each of which parses as a JSON object.
C24_BackToBackObjectsSeparated ==
    (call.op \in SanitizeOps /\ call.arg = BackToBackText)
    => /\ call.out.kind = "return"
       /\ LET pieces == Split(call.out.value, NL)
          IN  /\ Len(pieces) = 2
              /\ \A i \in 1..2 : IsValidJson(pieces[i]) /\ pieces[i][1] = LC
              /\ pieces[1][Len(pieces[1])] = RC

C24_Witness ==
    /\ call.op = "sanitizeJson"
    /\ call.arg = BackToBackText
    /\ ~IsValidJson(call.arg)
    /\ call.out = Return(<<LC, DQ, "a", DQ, COLON, "1", RC, NL,
                           LC, DQ, "b", DQ, COLON, "2", RC>>)

\* the k-th repair of sanitizeJson, in source order
Fix(k, m) ==
    CASE k = 1 -> Fix1(m) [] k = 2 -> Fix2(m) [] k = 3 -> Fix3(m) [] k = 4 -> Fix4(m)
      [] k = 5 -> Fix5(m) [] k = 6 -> Fix6(m) [] k = 7 -> Fix7(m) [] k = 8 -> Fix8(m)
      [] k = 9 -> Fix9(m) [] k = 10 -> Fix10(m) [] k = 11 -> Fix11(m)

RECURSIVE AfterFix(_, _)
\* the text after the first k repairs
AfterFix(k, json) == IF k = 0 THEN json ELSE Fix(k, AfterFix(k - 1, json))

\* how many repairs the variant called has
RepairsOf(op) == IF op = "sanitizeJsonBasic" THEN 9 ELSE 11

\* the call went on to the repairs: the text did not parse and the
\* position-5 path did not return
RepairsReached ==
    /\ call.op \in SanitizeOps
    /\ call.arg /= <<>>
    /\ ~IsValidJson(call.arg)
    /\ call.op = "sanitizeJson"
       => ~( /\ MentionsPosition5(JSONParse(call.arg))
             /\ fixPosition5Error(call.arg) /= call.arg
             /\ IsValidJson(fixPosition5Error(call.arg)) )

\* C25: sanitizeJson tries its repairs in a fixed order and stops at the
\* first point where the text parses: once the text parses after some repair,
\* no later repair is applied, and the text returned is the text as it stood
\* when it first parsed.
C25_StopsAtFirstParse ==
    RepairsReached
    => \A k \in 1..RepairsOf(call.op) :
          ( /\ IsValidJson(AfterFix(k, call.arg))
            /\ \A j \in 1..(k - 1) : ~IsValidJson(AfterFix(j, call.arg)) )
          => call.out = Return(AfterFix(k, call.arg))

\* ---------------------------------------------------------------------------
\* JSON.parse while a replacement is installed (src/src/server/index.ts,
\* monkeyPatchGlobalJSON; createSafeJSON and initializeJsonSafety;
\* sanitizeJson and fixPosition5Error, whose parse checks call the global
\* JSON.parse).  A call is followed frame by frame; the frames of one call
\* run to their end before anything else does.

\* the frames the call stack has room for
MaxFrames == 6

\* the texts handed to JSON.parse
ParseTexts == Documents \cup {<<>>, <<LC>>, <<LB, DQ, "a", DQ, RB>>}

Frame(fn, json) == [fn |-> fn, text |-> json]

\* RangeError: Maximum call stack size exceeded
StackExhausted == [kind |-> "stack exhausted", value |-> <<>>]

\* the function the global JSON.parse holds
GlobalParse ==
    IF jsonParse = Native THEN "native"
    ELSE IF installs[jsonParse.installedBy].kind = "transport" THEN "sanitizingParse"
    ELSE "safeParse"

\* text.slice(0, 5) + text.slice(6)
RemoveCharAt5(s) == Slice(s, 0, 5) \o SliceFrom(s, 6)

\* what a frame does first with its text: it returns a text (which the
\* original parser is then handed), lets the original error go to its caller,
\* or calls another function on the same text
Returns(json) == [does |-> "return", fn |-> "", text |-> json]
Rethrows == [does |-> "throw", fn |-> "", text |-> <<>>]
Calls(fn) == [does |-> "call", fn |-> fn, text |-> <<>>]

\* sanitizingParse up to its first call of a function that parses
sanitizingParse(json, p) ==
    IF p.ok THEN Returns(json)
    ELSE IF MentionsPosition5(p) THEN Calls("fixPosition5Error")
    ELSE Calls("sanitizeJson")

\* safeParse up to its first call of a function that parses
safeParse(json, p) ==
    IF p.ok THEN Returns(json)
    ELSE IF MentionsPosition5(p) /\ Len(json) > 5 /\ IsValidJson(InsertCommaAt5(json))
    THEN Returns(InsertCommaAt5(json))
    ELSE IF MentionsPosition5(p) /\ Len(json) > 5 /\ IsValidJson(RemoveCharAt5(json))
    THEN Returns(RemoveCharAt5(json))
    ELSE Calls("sanitizeJson")

\* a frame of sanitizeJson or fixPosition5Error up to its parse check.  An
\* empty text is returned by sanitizeJson without one, and the replacement,
\* whose original parser rejects it again, rethrows the original error; a
\* text of less than six characters is returned by fixPosition5Error
\* without one, and sanitizingParse goes on to sanitizeJson
ParseCheck(fn, json) ==
    IF fn = "sanitizeJson" /\ json = <<>> THEN Rethrows
    ELSE IF fn = "fixPosition5Error" /\ Len(json) < 6 THEN Calls("sanitizeJson")
    ELSE Calls(GlobalParse)

\* what the frame on top of the stack does
TopDoes(frame) ==
    IF frame.fn = "sanitizingParse" THEN sanitizingParse(frame.text, JSONParse(frame.text))
    ELSE IF frame.fn = "safeParse" THEN safeParse(frame.text, JSONParse(frame.text))
    ELSE ParseCheck(frame.fn, frame.text)

\* nothing is installed and no call is being made
InitParse ==
    /\ NoText /\ NoProxy /\ NoInstalls /\ NoSend /\ NoHttp /\ NoTools /\ NoStart /\ NoFormat /\ NoEnv
    /\ NoParse

\* new SafeStdioServerTransport(), between two calls
ConstructTransport ==
    /\ frames = <<>>
    /\ Construct(1)
    /\ UNCHANGED parseVars

\* initializeJsonSafety(), between two calls
InstallJsonSafety ==
    /\ frames = <<>>
    /\ InitializeJsonSafety(1)
    /\ UNCHANGED parseVars

\* JSON.parse(text) is called: the runtime's parser answers at once, a
\* replacement gets a frame
JsonParse(json) ==
    /\ frames = <<>> /\ parseCall.done
    /\ IF GlobalParse = "native"
       THEN /\ parseCall' = [text |-> json, done |-> TRUE,
                             out |-> IF IsValidJson(json) THEN Return(json) ELSE Throw]
            /\ frames' = <<>>
       ELSE /\ parseCall' = [text |-> json, out |-> Return(<<>>), done |-> FALSE]
            /\ frames' = <<Frame(GlobalParse, json)>>
    /\ UNCHANGED exceptParse

\* the frame on top calls a function on its text, if the stack has room
Call ==
    /\ frames /= <<>>
    /\ TopDoes(frames[Len(frames)]).does = "call"
    /\ Len(frames) < MaxFrames
    /\ frames' = Append(frames, Frame(TopDoes(frames[Len(frames)]).fn,
                                      frames[Len(frames)].text))
    /\ UNCHANGED <<parseCall, exceptParse>>

\* the frame on top calls a function and the stack has no room: RangeError
Exhaust ==
    /\ frames /= <<>>
    /\ TopDoes(frames[Len(frames)]).does = "call"
    /\ Len(frames) = MaxFrames
    /\ frames' = <<>>
    /\ parseCall' = [parseCall EXCEPT !.out = StackExhausted, !.done = TRUE]
    /\ UNCHANGED exceptParse

\* the replacement ends its call: with the value of the text its frame
\* returned, or with the original error
Finish ==
    /\ frames /= <<>>
    /\ TopDoes(frames[Len(frames)]).does /= "call"
    /\ frames' = <<>>
    /\ parseCall' = [parseCall EXCEPT
                       !.out = IF TopDoes(frames[Len(frames)]).does = "return"
                               THEN Return(TopDoes(frames[Len(frames)]).text)
                               ELSE Throw,
                       !.done = TRUE]
    /\ UNCHANGED exceptParse

NextParse ==
    \/ ConstructTransport
    \/ InstallJsonSafety
    \/ \E json \in ParseTexts : JsonParse(json)
    \/ Call
    \/ Exhaust
    \/ Finish

SpecParse == InitParse /\ [][NextParse]_vars

\* C26: with a replacement of the global JSON.parse installed, every
\* JSON.parse call on a text the original parser rejects ends by returning a
\* value or by throwing the original error: the parse checks of sanitizeJson
\* and fixPosition5Error do not re-enter the replacement until the call
\* stack is exhausted.
C26_ParseChecksDoNotExhaustTheStack ==
    (parseCall.done /\ ~IsValidJson(parseCall.text))
    => parseCall.out.kind \in {"return", "throw"}

\* ---------------------------------------------------------------------------
\* Claims about several interceptions

\* the installations made so far
Installed == {i \in Installs : installs[i].kind /= "none"}

\* C27: when several interceptions of process.stdout.write have been
\* installed one after another and every one of them has been undone,
\* process.stdout.write is the runtime's function again, whatever the order
\* of the close() and restore calls.
C27_AllUndoneRestoresStdout ==
    (Cardinality(Installed) > 1 /\ undone = Installed) => stdoutWrite = Native

\* ---------------------------------------------------------------------------
\* Claims about closed sessions

\* C28: the registries hold only live sessions: once a transport has closed
\* (its onclose handler has run, or its SSE response has closed) it is in
\* neither registry, and any later GET or DELETE on /mcp or POST on /messages
\* carrying its session id is answered with status 400 and reaches no
\* transport.
C28_ClosedSessionsAnswer400 ==
    [][/\ closed' \cap (streamable' \cup sse') = {}
       /\ \A t \in closed :
            /\ \A method \in {"GET", "DELETE"}, sdk \in {"initialized", "answered", "throws"} :
                  McpRequest(method, UUID(t), sdk)
                  => lastRequest'.status = "400" /\ lastRequest'.handledBy = 0
            /\ \A sdk \in {"answered", "throws"} :
                  MessagesRequest(UUID(t), sdk)
                  => lastRequest'.status = "400" /\ lastRequest'.handledBy = 0]_vars

\* a session was initialized, its transport closed, and a DELETE carrying
\* its id was then answered with 400
C28_Witness ==
    /\ 1 \in closed
    /\ lastRequest.path = "/mcp" /\ lastRequest.method = "DELETE"
    /\ lastRequest.id = UUID(1)
    /\ lastRequest.status = "400"

\* ---------------------------------------------------------------------------
\* The proxy and the client's disconnect: the 'end' and 'error' events of
\* the client socket, in any order with the 'data' events of the server
\* socket

\* clientSocket.on('end'): serverSocket.end() closes the proxy's side of the
\* connection to the server; what the server still sends arrives as before
ClientEnd ==
    /\ clientSocket = "open"
    /\ clientSocket' = "end"
    /\ UNCHANGED <<variant, pending, nArrived, responseBuffer, bufferedFrom, received,
                   written, exceptProxy>>

\* clientSocket.on('error'): serverSocket.end() unless it is destroyed
ClientError ==
    /\ clientSocket \in {"open", "end"}
    /\ clientSocket' = "error"
    /\ UNCHANGED <<variant, pending, nArrived, responseBuffer, bufferedFrom, received,
                   written, exceptProxy>>

NextProxyClient ==
    \/ ServerData
    \/ ClientEnd
    \/ ClientError

SpecProxyClient == InitProxy /\ [][NextProxyClient]_vars

\* C29: once the client socket has emitted 'end' or 'error', no write is
\* attempted on it, however the server's 'data' events fall around the
\* client's disconnect.
C29_NoWriteAfterClientGone ==
    [][(clientSocket \in {"end", "error"}) => (written' = written)]_vars

\* ---------------------------------------------------------------------------
\* Claims about the model identifiers in the proxy's responses

\* the characters of a model identifier
IdChars == Lower \cup Digits \cup {"_", ".", "-"}

\* s holds a quoted identifier that starts with name and has a dot or a
\* hyphen in it
HoldsDottedId(name, s) ==
    Test(RegExp(<<One({DQ})>> \o Literal(name)
                \o <<Star(IdChars), One({".", "-"}), Star(IdChars), One({DQ})>>), s)

\* the text the handler had in its buffer when it made the write w
SourceOf(w) == Joined(received, w.from[1], w.from[Len(w.from)])

\* C30: in the text the proxy forwards after its response sanitization, every
\* quoted model identifier gemini-... or gpt-... has had its dots and hyphens
\* replaced by underscores: the forwarded identifier holds neither "." nor
\* "-".
C30_ForwardedModelIdsAreUnderscored ==
    \A k \in DOMAIN written :
        HasMarker(variant, SourceOf(written[k]))
        => /\ ~HoldsDottedId(<<"g", "p", "t">>, written[k].data)
           /\ ~HoldsDottedId(<<"g", "e", "m", "i", "n", "i">>, written[k].data)

====
